---- MODULE Spec2Model ----
(***************************************************************************)
(* A model of the daily-bar market-structure scanner: the trade model      *)
(* generators (models.ts), the trend classifier (trend-analysis.ts), the   *)
(* pullback analyzer (pullback-analysis.ts), the nearest-zone locator      *)
(* (nearest-zone.ts), the bar source (data-provider.ts), the live price    *)
(* source (live-prices) and the scan orchestrator with its route.          *)
(*                                                                         *)
(* Numbers.  Prices are integers in the symbol's price unit: 1 USD for     *)
(* XAUUSD and 0.0001 (one pip) for the FX pairs, so that CONFIG.risk_cap,  *)
(* CONFIG.sl_buffer and CONFIG.oc_cluster_radius are the integers below.   *)
(* A quotient the code computes in floating point (rr, a pullback depth,   *)
(* the ATR) is the exact fraction <<numerator, denominator>>; comparisons  *)
(* are made by cross-multiplication.  A number that may be NaN or an       *)
(* infinity is Fin(n), Inf(sign) or NaN.  An optional number                *)
(* (number | null | undefined) is None or Some(x); an absent string or      *)
(* enumeration value is Null.                                               *)
(***************************************************************************)
EXTENDS Integers, Sequences, FiniteSets, TLC

Null == "null"

None == <<>>

Some(x) == <<x>>

(***************************************************************************)
(* Bounds of the model.                                                    *)
(***************************************************************************)
\* price levels of the bar grid are PriceAt(0) .. PriceAt(MaxLevel)
MaxLevel == 3

\* 100, 110, 140, 150, ...: steps below and above the risk cap of 40
PriceAt(k) == 100 + 10 * k + 20 * (k \div 2)

Prices == {PriceAt(k) : k \in 0..MaxLevel}

(***************************************************************************)
(* Arithmetic helpers.                                                     *)
(***************************************************************************)
Abs(x) == IF x < 0 THEN 0 - x ELSE x

Max2(a, b) == IF a >= b THEN a ELSE b

Min2(a, b) == IF a <= b THEN a ELSE b

SetMax(S) == CHOOSE x \in S : \A y \in S : y <= x

SetMin(S) == CHOOSE x \in S : \A y \in S : x <= y

Range(s) == {s[i] : i \in 1..Len(s)}

\* a fraction n/d with d > 0 (d = 0 stands for a division by zero)
RatLt(a, b) == a[1] * b[2] < b[1] * a[2]

RatLe(a, b) == a[1] * b[2] <= b[1] * a[2]

RECURSIVE Flatten(_)
Flatten(ss) == IF ss = <<>> THEN <<>> ELSE Head(ss) \o Flatten(Tail(ss))

\* s.slice(-n) for n >= 1
LastN(s, n) == IF Len(s) <= n THEN s ELSE SubSeq(s, Len(s) - n + 1, Len(s))

\* JavaScript's !x for x : number | null
Falsy(x) == x = None \/ x = Some(0)

(***************************************************************************)
(* CONFIG                                                                  *)
(***************************************************************************)
SYMBOLS == <<"XAUUSD", "EURUSD", "GBPJPY", "GBPUSD">>

SymbolCode == Range(SYMBOLS)

risk_cap == [s \in SymbolCode |-> 40]

sl_buffer == [s \in SymbolCode |-> IF s = "XAUUSD" THEN 2 ELSE 5]

oc_cluster_radius == [s \in SymbolCode |-> 5]

min_rr == 2

lookback_days == 20

trend_lookback == 10

(***************************************************************************)
(* zones.ts: swing-level search                                            *)
(***************************************************************************)
nearestAbove_Inclusive(list, price) ==
    LET filtered == {list[i] : i \in {j \in 1..Len(list) : list[j] >= price}}
    IN  IF filtered = {} THEN None ELSE Some(SetMin(filtered))

nearestAbove(list, price) ==
    LET filtered == {list[i] : i \in {j \in 1..Len(list) : list[j] > price}}
    IN  IF filtered = {} THEN None ELSE Some(SetMin(filtered))

nearestBelow(list, price) ==
    LET filtered == {list[i] : i \in {j \in 1..Len(list) : list[j] < price}}
    IN  IF filtered = {} THEN None ELSE Some(SetMax(filtered))

createLiquidityMap(bars) ==
    [highs |-> [i \in 1..Len(bars) |-> bars[i].high],
     lows  |-> [i \in 1..Len(bars) |-> bars[i].low]]

(***************************************************************************)
(* zones.ts: zone builder                                                  *)
(***************************************************************************)
RECURSIVE InsertAsc(_, _)
InsertAsc(x, s) ==
    IF s = <<>> THEN <<x>>
    ELSE IF x < Head(s) THEN <<x>> \o s
    ELSE <<Head(s)>> \o InsertAsc(x, Tail(s))

\* points.sort((a, b) => a - b)
RECURSIVE SortAsc(_)
SortAsc(s) == IF s = <<>> THEN <<>> ELSE InsertAsc(s[Len(s)], SortAsc(SubSeq(s, 1, Len(s) - 1)))

\* the opens and closes of the window, in push order
ZonePoints(analysisBars) ==
    Flatten([i \in 1..Len(analysisBars) |-> <<analysisBars[i].open, analysisBars[i].close>>])

\* a faulty variant of ClusterLoop: a point joins the open cluster only when it
\* is within the radius of the cluster's first point
RECURSIVE ClusterLoop_Anchored(_, _, _, _)
ClusterLoop_Anchored(points, clusters, currentCluster, clusterRadius) ==
    IF points = <<>> THEN Append(clusters, currentCluster)
    ELSE LET currentPoint == Head(points)
         IN  IF Abs(currentPoint - currentCluster[1]) <= clusterRadius
             THEN ClusterLoop_Anchored(Tail(points), clusters,
                                       Append(currentCluster, currentPoint), clusterRadius)
             ELSE ClusterLoop_Anchored(Tail(points), Append(clusters, currentCluster),
                                       <<currentPoint>>, clusterRadius)

\* the clustering loop over the sorted points: clusters closed so far and the open one
RECURSIVE ClusterLoop(_, _, _, _)
ClusterLoop(points, clusters, currentCluster, clusterRadius) ==
    IF points = <<>> THEN Append(clusters, currentCluster)
    ELSE LET currentPoint == Head(points)
             lastPointInCluster == currentCluster[Len(currentCluster)]
         IN  IF Abs(currentPoint - lastPointInCluster) <= clusterRadius
             THEN ClusterLoop(Tail(points), clusters,
                              Append(currentCluster, currentPoint), clusterRadius)
             ELSE ClusterLoop(Tail(points), Append(clusters, currentCluster),
                              <<currentPoint>>, clusterRadius)

ClusterPoints(points, clusterRadius) ==
    ClusterLoop(Tail(points), <<>>, <<Head(points)>>, clusterRadius)

\* 2 for each close and 1 for each open of the window inside [zone_low, zone_high]
RECURSIVE ZoneScore(_, _, _)
ZoneScore(analysisBars, zone_low, zone_high) ==
    IF analysisBars = <<>> THEN 0
    ELSE LET bar == Head(analysisBars)
         IN  (IF bar.close >= zone_low /\ bar.close <= zone_high THEN 2 ELSE 0)
           + (IF bar.open >= zone_low /\ bar.open <= zone_high THEN 1 ELSE 0)
           + ZoneScore(Tail(analysisBars), zone_low, zone_high)

\* a faulty variant of InsertByScore: the zones end up in ascending score order
RECURSIVE InsertByScore_Ascending(_, _)
InsertByScore_Ascending(z, s) ==
    IF s = <<>> THEN <<z>>
    ELSE IF z.score < Head(s).score THEN <<z>> \o s
    ELSE <<Head(s)>> \o InsertByScore_Ascending(z, Tail(s))

RECURSIVE InsertByScore(_, _)
InsertByScore(z, s) ==
    IF s = <<>> THEN <<z>>
    ELSE IF z.score > Head(s).score THEN <<z>> \o s
    ELSE <<Head(s)>> \o InsertByScore(z, Tail(s))

\* zones.sort((a, b) => b.score - a.score), a stable sort
RECURSIVE SortByScoreDesc(_)
SortByScoreDesc(s) ==
    IF s = <<>> THEN <<>>
    ELSE InsertByScore(s[Len(s)], SortByScoreDesc(SubSeq(s, 1, Len(s) - 1)))

\* the zone of a cluster; the mid is a whole number of price units on the grid
MakeZone(cluster, analysisBars) ==
    LET zone_low  == SetMin(Range(cluster))
        zone_high == SetMax(Range(cluster))
    IN  [zone_low |-> zone_low, zone_high |-> zone_high,
         zone_mid |-> (zone_low + zone_high) \div 2,
         score |-> ZoneScore(analysisBars, zone_low, zone_high)]

\* findStructuralZones over the last lookbackDays bars, as the engine calls it
findStructuralZones(bars, symbol, lookbackDays) ==
    IF Len(bars) < lookbackDays THEN <<>>
    ELSE LET analysisBars == LastN(bars, lookbackDays)
             points   == SortAsc(ZonePoints(analysisBars))
             clusters == ClusterPoints(points, oc_cluster_radius[symbol])
             zones    == [i \in 1..Len(clusters) |-> MakeZone(clusters[i], analysisBars)]
         IN  SubSeq(SortByScoreDesc(zones), 1, Min2(5, Len(zones)))

(***************************************************************************)
(* models.ts: trade model generators A, B and C                            *)
(***************************************************************************)
Trade(model, direction, entry, stop, tp1, risk, reward, rr, stopType) ==
    [model |-> model, direction |-> direction, entry |-> entry, stop |-> stop,
     tp1 |-> tp1, risk_price |-> risk, reward_price |-> reward, rr |-> rr,
     status |-> "VALID", stopType |-> stopType]

\* options?.minRr ?? CONFIG.min_rr
EffectiveMinRr(options) ==
    IF options.minRr = None THEN <<min_rr, 1>> ELSE options.minRr[1]

\* spreadCap != null && currentSpread != null && currentSpread > spreadCap
SpreadBlocked(bars, options) ==
    LET currentSpread == bars[Len(bars)].spread
    IN  /\ options.spreadCap # None
        /\ currentSpread # None
        /\ currentSpread[1] > options.spreadCap[1]

RiskGateFails_NoCap(risk, riskCap) == risk <= 0

\* if (risk <= 0 || risk > riskCap) continue;
RiskGateFails(risk, riskCap) == risk <= 0 \/ risk > riskCap

\* if (rr < minRR) continue;
RrGateFails(rr, minRR) == RatLt(rr, minRR)

ModelALong(zone, liquidity, riskCap, slBuffer, minRR) ==
    LET entry    == zone.zone_mid
        swingLow == nearestBelow(liquidity.lows, entry)
        stop     == swingLow[1] - slBuffer
        risk     == entry - stop
        tp1      == nearestAbove(liquidity.highs, entry)
        reward   == tp1[1] - entry
        rr       == <<reward, risk>>
    IN  IF Falsy(swingLow) THEN <<>>
        ELSE IF RiskGateFails(risk, riskCap) THEN <<>>
        ELSE IF Falsy(tp1) THEN <<>>
        ELSE IF RrGateFails(rr, minRR) THEN <<>>
        ELSE <<Trade("A", "Long", entry, stop, tp1[1], risk, reward, rr, "Swing")>>

ModelAShort(zone, liquidity, riskCap, slBuffer, minRR) ==
    LET entry     == zone.zone_mid
        swingHigh == nearestAbove(liquidity.highs, entry)
        stop      == swingHigh[1] + slBuffer
        risk      == stop - entry
        tp1       == nearestBelow(liquidity.lows, entry)
        reward    == entry - tp1[1]
        rr        == <<reward, risk>>
    IN  IF Falsy(swingHigh) THEN <<>>
        ELSE IF RiskGateFails(risk, riskCap) THEN <<>>
        ELSE IF Falsy(tp1) THEN <<>>
        ELSE IF RrGateFails(rr, minRR) THEN <<>>
        ELSE <<Trade("A", "Short", entry, stop, tp1[1], risk, reward, rr, "Swing")>>

\* a faulty variant of generateModelATrades: the zones are not filtered by the
\* side of the current price
generateModelATrades_AnySide(trend, zones, liquidity, bars, symbol, options) ==
    LET riskCap  == risk_cap[symbol]
        slBuffer == sl_buffer[symbol]
        minRR    == EffectiveMinRr(options)
    IN  IF SpreadBlocked(bars, options) THEN <<>>
        ELSE IF trend = "Bull"
        THEN Flatten([i \in 1..Len(zones) |->
                        ModelALong(zones[i], liquidity, riskCap, slBuffer, minRR)])
        ELSE IF trend = "Bear"
        THEN Flatten([i \in 1..Len(zones) |->
                        ModelAShort(zones[i], liquidity, riskCap, slBuffer, minRR)])
        ELSE <<>>

generateModelATrades(trend, zones, liquidity, bars, symbol, options) ==
    LET currentPrice == bars[Len(bars)].close
        riskCap  == risk_cap[symbol]
        slBuffer == sl_buffer[symbol]
        minRR    == EffectiveMinRr(options)
        below    == SelectSeq(zones, LAMBDA z : z.zone_mid < currentPrice)
        above    == SelectSeq(zones, LAMBDA z : z.zone_mid > currentPrice)
    IN  IF SpreadBlocked(bars, options) THEN <<>>
        ELSE IF trend = "Bull"
        THEN Flatten([i \in 1..Len(below) |->
                        ModelALong(below[i], liquidity, riskCap, slBuffer, minRR)])
        ELSE IF trend = "Bear"
        THEN Flatten([i \in 1..Len(above) |->
                        ModelAShort(above[i], liquidity, riskCap, slBuffer, minRR)])
        ELSE <<>>

ModelBLong(zone, liquidity, pdl, riskCap, slBuffer, minRR) ==
    LET entry  == zone.zone_mid
        stop   == pdl - slBuffer
        risk   == entry - stop
        tp1    == nearestAbove(liquidity.highs, entry)
        reward == tp1[1] - entry
        rr     == <<reward, risk>>
    IN  IF RiskGateFails(risk, riskCap) THEN <<>>
        ELSE IF Falsy(tp1) THEN <<>>
        ELSE IF RrGateFails(rr, minRR) THEN <<>>
        ELSE <<Trade("B", "Long", entry, stop, tp1[1], risk, reward, rr, "PD")>>

ModelBShort(zone, liquidity, pdh, riskCap, slBuffer, minRR) ==
    LET entry  == zone.zone_mid
        stop   == pdh + slBuffer
        risk   == stop - entry
        tp1    == nearestBelow(liquidity.lows, entry)
        reward == entry - tp1[1]
        rr     == <<reward, risk>>
    IN  IF RiskGateFails(risk, riskCap) THEN <<>>
        ELSE IF Falsy(tp1) THEN <<>>
        ELSE IF RrGateFails(rr, minRR) THEN <<>>
        ELSE <<Trade("B", "Short", entry, stop, tp1[1], risk, reward, rr, "PD")>>

generateModelBTrades(trend, zones, liquidity, bars, symbol, options) ==
    LET currentPrice == bars[Len(bars)].close
        prevBar  == bars[Len(bars) - 1]
        riskCap  == risk_cap[symbol]
        slBuffer == sl_buffer[symbol]
        minRR    == EffectiveMinRr(options)
        below    == SelectSeq(zones, LAMBDA z : z.zone_mid < currentPrice)
        above    == SelectSeq(zones, LAMBDA z : z.zone_mid > currentPrice)
    IN  IF SpreadBlocked(bars, options) THEN <<>>
        ELSE IF Len(bars) < 2 THEN <<>>
        ELSE IF trend = "Bull"
        THEN Flatten([i \in 1..Len(below) |->
                ModelBLong(below[i], liquidity, prevBar.low, riskCap, slBuffer, minRR)])
        ELSE IF trend = "Bear"
        THEN Flatten([i \in 1..Len(above) |->
                ModelBShort(above[i], liquidity, prevBar.high, riskCap, slBuffer, minRR)])
        ELSE <<>>

\* Model C's accumulator: the trades pushed so far and the keys seen
\* a faulty variant of maybePushTrade: the seen keys are not consulted
maybePushTrade_NoDedup(acc, model, direction, entry, stop, tp1, stopType, riskCap, minRR) ==
    LET key    == <<direction, entry, stopType>>
        risk   == IF direction = "Long" THEN entry - stop ELSE stop - entry
        reward == IF direction = "Long" THEN tp1 - entry ELSE entry - tp1
        rr     == <<reward, risk>>
    IN  IF RiskGateFails(risk, riskCap) THEN acc
        ELSE IF RrGateFails(rr, minRR) THEN acc
        ELSE [trades |-> Append(acc.trades,
                  Trade(model, direction, entry, stop, tp1, risk, reward, rr, stopType)),
              seen |-> acc.seen \cup {key}]

maybePushTrade(acc, model, direction, entry, stop, tp1, stopType, riskCap, minRR) ==
    LET key    == <<direction, entry, stopType>>
        risk   == IF direction = "Long" THEN entry - stop ELSE stop - entry
        reward == IF direction = "Long" THEN tp1 - entry ELSE entry - tp1
        rr     == <<reward, risk>>
    IN  IF key \in acc.seen THEN acc
        ELSE IF RiskGateFails(risk, riskCap) THEN acc
        ELSE IF RrGateFails(rr, minRR) THEN acc
        ELSE [trades |-> Append(acc.trades,
                  Trade(model, direction, entry, stop, tp1, risk, reward, rr, stopType)),
              seen |-> acc.seen \cup {key}]

\* one iteration of the loop over entryLevels
ModelCLevel(acc, trendDay, entry, trendBar, currentBar, liquidity, riskCap, slBuffer, minRR) ==
    IF trendDay = "Bull"
    THEN LET tp1      == nearestAbove(liquidity.highs, entry)
             swingLow == nearestBelow(liquidity.lows, entry)
             acc1     == IF Falsy(swingLow) THEN acc
                         ELSE maybePushTrade(acc, "C1", "Long", entry,
                                  swingLow[1] - slBuffer, tp1[1], "Swing", riskCap, minRR)
         IN  IF entry < currentBar.low \/ entry > currentBar.high THEN acc
             ELSE IF Falsy(tp1) THEN acc
             ELSE maybePushTrade(acc1, "C2", "Long", entry,
                      trendBar.low - slBuffer, tp1[1], "PD", riskCap, minRR)
    ELSE LET tp1       == nearestBelow(liquidity.lows, entry)
             swingHigh == nearestAbove(liquidity.highs, entry)
             acc1      == IF Falsy(swingHigh) THEN acc
                          ELSE maybePushTrade(acc, "C1", "Short", entry,
                                   swingHigh[1] + slBuffer, tp1[1], "Swing", riskCap, minRR)
         IN  IF entry > currentBar.high \/ entry < currentBar.low THEN acc
             ELSE IF Falsy(tp1) THEN acc
             ELSE maybePushTrade(acc1, "C2", "Short", entry,
                      trendBar.high + slBuffer, tp1[1], "PD", riskCap, minRR)

RECURSIVE ModelCLoop(_, _, _, _, _, _, _, _, _)
ModelCLoop(acc, trendDay, levels, trendBar, currentBar, liquidity, riskCap, slBuffer, minRR) ==
    IF levels = <<>> THEN acc
    ELSE ModelCLoop(
            ModelCLevel(acc, trendDay, Head(levels), trendBar, currentBar,
                        liquidity, riskCap, slBuffer, minRR),
            trendDay, Tail(levels), trendBar, currentBar, liquidity,
            riskCap, slBuffer, minRR)

\* the middle bar classified against the oldest bar (models.ts 228-238)
ModelCTrendDay(referenceBar, trendBar) ==
    LET brokeHigh == trendBar.high > referenceBar.high
        brokeLow  == trendBar.low < referenceBar.low
    IN  IF brokeHigh /\ ~brokeLow THEN "Bull"
        ELSE IF brokeLow /\ ~brokeHigh THEN "Bear"
        ELSE IF brokeHigh /\ brokeLow
        THEN (IF trendBar.close >= referenceBar.close THEN "Bull" ELSE "Bear")
        ELSE Null

generateModelCTrades(trend, liquidity, bars, symbol, options) ==
    IF Len(bars) < 3 THEN <<>>
    ELSE
    LET currentBar   == bars[Len(bars)]
        trendBar     == bars[Len(bars) - 1]
        referenceBar == bars[Len(bars) - 2]
        riskCap  == risk_cap[symbol]
        slBuffer == sl_buffer[symbol]
        minRR    == EffectiveMinRr(options)
        trendDay == ModelCTrendDay(referenceBar, trendBar)
        entryLevels == IF trendDay = "Bull"
                       THEN <<trendBar.high, trendBar.close, trendBar.low>>
                       ELSE <<trendBar.low, trendBar.close, trendBar.high>>
    IN  IF SpreadBlocked(bars, options) THEN <<>>
        ELSE IF trendDay = Null THEN <<>>
        ELSE ModelCLoop([trades |-> <<>>, seen |-> {}], trendDay, entryLevels,
                        trendBar, currentBar, liquidity, riskCap, slBuffer, minRR).trades


(***************************************************************************)
(* trend-analysis.ts: trend days, macro trend, alignment, location, ATR    *)
(***************************************************************************)
\* a faulty variant of classifyTrendDayForPair: a break of one extreme makes a
\* trend day wherever the bar closed
classifyTrendDayForPair_BreakOnly(prev, cur) ==
    LET brokeHigh == cur.high > prev.high
        brokeLow  == cur.low < prev.low
    IN  IF brokeHigh /\ ~brokeLow THEN "Bull"
        ELSE IF brokeLow /\ ~brokeHigh THEN "Bear"
        ELSE "Neutral"

classifyTrendDayForPair(prev, cur) ==
    LET brokeHigh == cur.high > prev.high
        brokeLow  == cur.low < prev.low
        closedAbovePrevHigh == cur.close > prev.high
        closedBelowPrevLow  == cur.close < prev.low
    IN  IF ~brokeHigh /\ ~brokeLow THEN "Neutral"
        ELSE IF closedAbovePrevHigh /\ ~closedBelowPrevLow THEN "Bull"
        ELSE IF closedBelowPrevLow /\ ~closedAbovePrevHigh THEN "Bear"
        ELSE "Neutral"

\* bars.slice(-Math.max(trendLookback + 1, 2))
TrendBars(bars, trendLookback) == LastN(bars, Max2(trendLookback + 1, 2))

\* the trend day of every adjacent pair of the trend window, oldest first
TrendDays(trendBars) ==
    [i \in 1..(Len(trendBars) - 1) |-> classifyTrendDayForPair(trendBars[i], trendBars[i + 1])]

\* a faulty variant of computeLatestTrendDay: the trend day of the last pair alone
computeLatestTrendDay_LastPair(bars, trendLookback) ==
    LET days == TrendDays(TrendBars(bars, trendLookback))
    IN  days[Len(days)]

computeLatestTrendDay(bars, trendLookback) ==
    LET days == TrendDays(TrendBars(bars, trendLookback))
        nonNeutral == {i \in 1..Len(days) : days[i] # "Neutral"}
    IN  IF nonNeutral = {} THEN "Neutral" ELSE days[SetMax(nonNeutral)]

\* a faulty variant of DominanceThreshold: Math.floor(total * 0.6)
DominanceThreshold_Floor(total) == (6 * total) \div 10

\* Math.ceil(total * 0.6)
DominanceThreshold(total) == (6 * total + 9) \div 10

computeMacroTrend(bars, trendLookback) ==
    LET days      == TrendDays(TrendBars(bars, trendLookback))
        bullCount == Cardinality({i \in 1..Len(days) : days[i] = "Bull"})
        bearCount == Cardinality({i \in 1..Len(days) : days[i] = "Bear"})
        total     == bullCount + bearCount
        threshold == DominanceThreshold(total)
    IN  IF total = 0 THEN "Neutral"
        ELSE IF bullCount >= threshold /\ bullCount > bearCount THEN "Bull"
        ELSE IF bearCount >= threshold /\ bearCount > bullCount THEN "Bear"
        ELSE "Neutral"

computeTrendAlignment(macro, trendDay) ==
    IF macro = "Bull" /\ trendDay = "Bull" THEN "AlignedLong"
    ELSE IF macro = "Bear" /\ trendDay = "Bear" THEN "AlignedShort"
    ELSE IF macro = "Bull" /\ trendDay = "Bear" THEN "CounterShort"
    ELSE IF macro = "Bear" /\ trendDay = "Bull" THEN "CounterLong"
    ELSE "Neutral"

\* position of the last close in the range of the lookback window
TrendLocation(bars, lookbackDays) ==
    LET lookbackBars == LastN(bars, lookbackDays)
        maxHigh   == SetMax({lookbackBars[i].high : i \in 1..Len(lookbackBars)})
        minLow    == SetMin({lookbackBars[i].low : i \in 1..Len(lookbackBars)})
        lastClose == bars[Len(bars)].close
        pos       == IF maxHigh # minLow THEN <<lastClose - minLow, maxHigh - minLow>>
                     ELSE <<1, 2>>
    IN  IF RatLt(pos, <<1, 3>>) THEN "Discount"
        ELSE IF RatLt(<<2, 3>>, pos) THEN "Premium"
        ELSE "Mid"

\* a faulty variant of TrueRange: the gap to the previous close is left out
TrueRange_HighLow(bar, prevClose) == bar.high - bar.low

TrueRange(bar, prevClose) ==
    Max2(bar.high - bar.low, Max2(Abs(bar.high - prevClose), Abs(bar.low - prevClose)))

RECURSIVE SumSeq(_)
SumSeq(s) == IF s = <<>> THEN 0 ELSE Head(s) + SumSeq(Tail(s))

\* the windowed average true range, as the fraction atrSum / (atrBars.length - 1)
AverageTrueRange(bars, atrWindow) ==
    LET atrBars == LastN(bars, atrWindow)
        atrSum  == SumSeq([i \in 1..(Len(atrBars) - 1) |->
                              TrueRange(atrBars[i + 1], atrBars[i].close)])
    IN  IF Len(atrBars) > 1 THEN <<atrSum, Len(atrBars) - 1>> ELSE <<0, 1>>

classifyTrend(bars, lookbackDays, atrWindow, trendLookback) ==
    IF Len(bars) < 2
    THEN [macroTrend |-> "Neutral", trendDay |-> "Neutral", alignment |-> "Neutral",
          location |-> "Mid", atr20 |-> <<0, 1>>]
    ELSE LET trendDay   == computeLatestTrendDay(bars, trendLookback)
             macroTrend == computeMacroTrend(bars, trendLookback)
         IN  [macroTrend |-> macroTrend, trendDay |-> trendDay,
              alignment |-> computeTrendAlignment(macroTrend, trendDay),
              location |-> TrendLocation(bars, lookbackDays),
              atr20 |-> AverageTrueRange(bars, atrWindow)]

(***************************************************************************)
(* pullback-analysis.ts                                                    *)
(* The live price and the previous bar of computeLivePullbackIntoPrev are  *)
(* JavaScript numbers that may be non-finite: Fin(n), Inf(1), Inf(-1), NaN. *)
(***************************************************************************)
Fin(n) == <<"fin", n>>

Inf(sign) == <<"inf", sign>>

NaN == <<"nan", 0>>

IsFinite(x) == x[1] = "fin"

\* a - b on JavaScript numbers
NumSub(a, b) ==
    IF a[1] = "nan" \/ b[1] = "nan" THEN NaN
    ELSE IF a[1] = "fin" /\ b[1] = "fin" THEN Fin(a[2] - b[2])
    ELSE IF a[1] = "inf" /\ b[1] = "inf" THEN (IF a[2] = b[2] THEN NaN ELSE a)
    ELSE IF a[1] = "inf" THEN a
    ELSE Inf(0 - b[2])

\* x <= 0 on JavaScript numbers (false for NaN)
NumLeZero(x) ==
    IF x[1] = "fin" THEN x[2] <= 0 ELSE x[1] = "inf" /\ x[2] < 0

\* depth thresholds in thousandths: 0.382, 0.5, 0.618, 0.786, 1.0
DepthBelow(depth, thousandths) == 1000 * depth[1] < thousandths * depth[2]

\* a faulty variant of classifyPullbackBucket: a depth of exactly 1.0 stays in
\* the bucket below
classifyPullbackBucket_InclusiveOne(depth) ==
    IF DepthBelow(depth, 382) THEN "0-0.382"
    ELSE IF DepthBelow(depth, 500) THEN "0.382-0.5"
    ELSE IF DepthBelow(depth, 618) THEN "0.5-0.618"
    ELSE IF DepthBelow(depth, 786) THEN "0.618-0.786"
    ELSE IF depth[1] <= depth[2] THEN "0.786-1.0"
    ELSE "1.0+"

classifyPullbackBucket(depth) ==
    IF DepthBelow(depth, 382) THEN "0-0.382"
    ELSE IF DepthBelow(depth, 500) THEN "0.382-0.5"
    ELSE IF DepthBelow(depth, 618) THEN "0.5-0.618"
    ELSE IF DepthBelow(depth, 786) THEN "0.618-0.786"
    ELSE IF DepthBelow(depth, 1000) THEN "0.786-1.0"
    ELSE "1.0+"

\* a faulty variant of ClampDepth: the depth clamped into [0, 1]
ClampDepth_Unit(depth) ==
    IF depth[1] < 0 THEN <<0, depth[2]>>
    ELSE IF depth[1] > depth[2] THEN <<depth[2], depth[2]>>
    ELSE depth

\* Math.max(0, depth): floored at 0, overshoots above 1 kept
ClampDepth(depth) == IF depth[1] < 0 THEN <<0, depth[2]>> ELSE depth

\* NaN is None; range <= TINY_RANGE = 1e-6 is range <= 0 on the integer grid
computeDepthIntoPrevious(prev, curr, macroTrendPrev) ==
    LET range == prev.high - prev.low
    IN  IF range <= 0 THEN None
        ELSE IF macroTrendPrev = "Bull" THEN Some(ClampDepth(<<prev.high - curr.low, range>>))
        ELSE IF macroTrendPrev = "Bear" THEN Some(ClampDepth(<<curr.high - prev.low, range>>))
        ELSE None

\* prev.high, prev.low and currentPrice are JavaScript numbers; null is None
computeLivePullbackIntoPrev(prev, currentPrice, macroTrend) ==
    LET range == NumSub(prev.high, prev.low)
    IN  IF ~IsFinite(currentPrice) \/ ~IsFinite(range) \/ NumLeZero(range) THEN None
        ELSE IF macroTrend = "Bull"
             THEN Some(ClampDepth(<<NumSub(prev.high, currentPrice)[2], range[2]>>))
        ELSE IF macroTrend = "Bear"
             THEN Some(ClampDepth(<<NumSub(currentPrice, prev.low)[2], range[2]>>))
        ELSE None

\* a faulty variant of PairTrendBars: the scenario classified on the bars up to the
\* retrace bar itself
PairTrendBars_WithCurrent(bars, prevIndex) == SubSeq(bars, 1, prevIndex + 2)

\* bars.slice(0, prevIndex + 1), prevIndex counted from 0
PairTrendBars(bars, prevIndex) == SubSeq(bars, 1, prevIndex + 1)

\* the record of the pair (bars[currIndex - 1], bars[currIndex]), indices from 0;
\* <<>> when the depth is NaN
PairRecord(bars, currIndex, trendLookback) ==
    LET prevIndex == currIndex - 1
        prev  == bars[prevIndex + 1]
        curr  == bars[currIndex + 1]
        t     == classifyTrend(PairTrendBars(bars, prevIndex),
                               lookback_days, 20, trendLookback)
        depthIntoPrevPct == computeDepthIntoPrevious(prev, curr, t.macroTrend)
    IN  IF depthIntoPrevPct = None THEN <<>>
        ELSE << [prevIndex |-> prevIndex, currIndex |-> currIndex,
                 prevHigh |-> prev.high, prevLow |-> prev.low,
                 currHigh |-> curr.high, currLow |-> curr.low,
                 scenario |-> [macroTrendPrev |-> t.macroTrend,
                               trendDayPrev |-> t.trendDay,
                               alignmentPrev |-> t.alignment],
                 depthIntoPrevPct |-> depthIntoPrevPct[1],
                 bucket |-> classifyPullbackBucket(depthIntoPrevPct[1])] >>

\* a faulty variant of buildCandlePairPullbacks: the loop stops before the pair
\* that ends on the last bar
buildCandlePairPullbacks_NoLast(bars, trendLookback, lookbackDays) ==
    IF Len(bars) < 2 THEN <<>>
    ELSE LET currentWindowStart == Max2(1, Len(bars) - lookbackDays + 1)
         IN  Flatten([k \in 1..(Len(bars) - currentWindowStart - 1) |->
                         PairRecord(bars, currentWindowStart + k - 1, trendLookback)])

buildCandlePairPullbacks(bars, trendLookback, lookbackDays) ==
    IF Len(bars) < 2 THEN <<>>
    ELSE LET currentWindowStart == Max2(1, Len(bars) - lookbackDays + 1)
         IN  Flatten([k \in 1..(Len(bars) - currentWindowStart) |->
                         PairRecord(bars, currentWindowStart + k - 1, trendLookback)])

(***************************************************************************)
(* nearest-zone.ts                                                         *)
(***************************************************************************)
\* a faulty variant of ZoneMidOf: the stored mid is used as it is
ZoneMidOf_Stored(z) == z.zone_mid

\* the mid used for a zone: the stored one unless it is 0
ZoneMidOf(z) == IF z.zone_mid # 0 THEN z.zone_mid ELSE (z.zone_low + z.zone_high) \div 2

\* a faulty variant of ZoneStatus: the thresholds are exclusive
ZoneStatus_Exclusive(bestDistance, spot, atr20) ==
    IF atr20 # None /\ atr20[1][1] > 0
    THEN IF 10 * bestDistance * atr20[1][2] < atr20[1][1] THEN "AT_ZONE"
         ELSE IF 4 * bestDistance * atr20[1][2] < atr20[1][1] THEN "NEAR"
         ELSE "FAR"
    ELSE IF 1000 * bestDistance < spot THEN "AT_ZONE"
         ELSE IF 200 * bestDistance < spot THEN "NEAR"
         ELSE "FAR"

\* the proximity classification: bestDistance against 0.1 and 0.25 of the ATR
\* (a fraction), or distancePct = bestDistance / spot * 100 against 0.1 and 0.5
ZoneStatus(bestDistance, spot, atr20) ==
    IF atr20 # None /\ atr20[1][1] > 0
    THEN IF 10 * bestDistance * atr20[1][2] <= atr20[1][1] THEN "AT_ZONE"
         ELSE IF 4 * bestDistance * atr20[1][2] <= atr20[1][1] THEN "NEAR"
         ELSE "FAR"
    ELSE IF 1000 * bestDistance <= spot THEN "AT_ZONE"
         ELSE IF 200 * bestDistance <= spot THEN "NEAR"
         ELSE "FAR"

\* atr20 is None (null) or Some(fraction); a zero or null ATR selects the
\* percent thresholds
computeNearestZoneInfo(zones, spot, atr20) ==
    IF Len(zones) = 0 THEN None
    ELSE LET dist(k)      == Abs(spot - ZoneMidOf(zones[k]))
             bestDistance == SetMin({dist(k) : k \in 1..Len(zones)})
             \* d < bestDistance is strict: the first zone at the minimum wins
             bestIndex    == SetMin({k \in 1..Len(zones) : dist(k) = bestDistance})
             bestZone     == zones[bestIndex]
             hasAtr       == atr20 # None /\ atr20[1][1] > 0
             status       == ZoneStatus(bestDistance, spot, atr20)
         IN  Some([spot |-> spot,
                   zone_low |-> bestZone.zone_low, zone_high |-> bestZone.zone_high,
                   zone_mid |-> ZoneMidOf(bestZone), score |-> bestZone.score,
                   distance |-> bestDistance,
                   distancePct |-> <<100 * bestDistance, spot>>,
                   distanceAtr |-> IF hasAtr
                                   THEN Some(<<bestDistance * atr20[1][2], atr20[1][1]>>)
                                   ELSE None,
                   status |-> status])

\* z == null || !Number.isFinite(z.zone_low) || !Number.isFinite(z.zone_high): skipped
NearestZoneUsable(z) == IsFinite(z.zone_low) /\ IsFinite(z.zone_high)

\* a usable zone with its numbers unwrapped; a stored mid that is not finite
\* is recomputed like a stored mid of 0
FiniteZone(z) ==
    [zone_low |-> z.zone_low[2], zone_high |-> z.zone_high[2],
     zone_mid |-> IF IsFinite(z.zone_mid) THEN z.zone_mid[2] ELSE 0,
     score |-> z.score]

\* computeNearestZoneInfo on zones and a spot that are any JavaScript numbers:
\* null for no zones or a spot that is not finite, zones without finite
\* bounds skipped, null when none is left
NearestZoneInfoOf(zones, spot, atr20) ==
    IF Len(zones) = 0 THEN None
    ELSE IF ~IsFinite(spot) THEN None
    ELSE LET usable == SelectSeq(zones, NearestZoneUsable)
         IN  IF usable = <<>> THEN None
             ELSE computeNearestZoneInfo([k \in 1..Len(usable) |-> FiniteZone(usable[k])],
                                         spot[2], atr20)

(***************************************************************************)
(* data-provider.ts: the bar source                                        *)
(***************************************************************************)
\* the k-th bar of a price series that walks round the price grid
GridBarAt(k) ==
    LET open  == PriceAt(k % (MaxLevel + 1))
        close == PriceAt((k + 1) % (MaxLevel + 1))
    IN  [open |-> open, high |-> Max2(open, close), low |-> Min2(open, close),
         close |-> close, spread |-> None]

SymbolIndex(symbol) == CHOOSE i \in 1..Len(SYMBOLS) : SYMBOLS[i] = symbol

\* the bars parsed from the symbol's CSV file, sorted by date; a file that is
\* missing, unreadable, without a valid header or without rows gives []
loadBrokerCsvOhlc(symbol, fileBars) ==
    [j \in 1..fileBars |-> GridBarAt(SymbolIndex(symbol) + j)]

\* lookback bars of random prices; seed stands for the draws of Math.random
generateSyntheticData(symbol, lookback, seed) ==
    [j \in 1..lookback |-> GridBarAt(seed + j)]

\* getDailyOhlc: the last lookback bars of the file, synthetic bars when the
\* file gave none
getDailyOhlc(symbol, lookback, fileBars, seed) ==
    LET allBars == loadBrokerCsvOhlc(symbol, fileBars)
    IN  IF Len(allBars) = 0
        THEN [origin |-> "synthetic", bars |-> generateSyntheticData(symbol, lookback, seed)]
        ELSE [origin |-> "csv", bars |-> LastN(allBars, lookback)]

(***************************************************************************)
(* engine: scanSymbol and scanMarket                                       *)
(***************************************************************************)
\* CONFIG.pullback_lookback_days
pullback_lookback_days == 20

\* x ?? fallback
OrElse(x, fallback) == IF x = None THEN fallback ELSE x[1]

ScanWindows(params) ==
    [lookbackDays  |-> Max2(1, OrElse(params.structureLookback, lookback_days)),
     trendLookback |-> Max2(1, OrElse(params.trendLookback, trend_lookback)),
     atrWindow     |-> Max2(2, OrElse(params.atrWindow, 20)),
     pullbackLookbackDays |-> Max2(2, OrElse(params.pullbackWindow, pullback_lookback_days))]

\* a faulty variant of neededBars: the pullback window is left out
neededBars_NoPullback(w) ==
    SetMax({w.lookbackDays, w.atrWindow + 1, w.trendLookback + 1})

neededBars(w) ==
    SetMax({w.lookbackDays, w.atrWindow + 1, w.pullbackLookbackDays + 1,
            w.trendLookback + 1})

\* scanSymbol's trade generation: [...modelATrades, ...modelBTrades, ...modelCTrades]
ScanTrades(trend, bars, symbol, options, lookbackDays) ==
    LET zones     == findStructuralZones(bars, symbol, lookbackDays)
        liquidity == createLiquidityMap(LastN(bars, lookbackDays))
    IN  generateModelATrades(trend, zones, liquidity, bars, symbol, options)
        \o generateModelBTrades(trend, zones, liquidity, bars, symbol, options)
        \o generateModelCTrades(trend, liquidity, bars, symbol, options)

\* manualClose?.enabled && typeof manualClose.close === "number" ? close : null
ManualSpot(manualCloses, symbol) ==
    IF manualCloses[symbol] # None /\ manualCloses[symbol][1].enabled
    THEN Some(manualCloses[symbol][1].close)
    ELSE None

\* scanSymbol after the bars came back: the error thrown or the result returned
scanSymbol(symbol, bars, options) ==
    LET w == ScanWindows(options.params)
    IN  IF Len(bars) < neededBars(w)
        THEN [threw |-> TRUE,
              message |-> <<"Insufficient data for", symbol, "got", Len(bars),
                            "need", neededBars(w)>>]
        ELSE LET t == classifyTrend(bars, w.lookbackDays, w.atrWindow, w.trendLookback)
                 prevBar    == bars[Len(bars) - 1]
                 lastBar    == bars[Len(bars)]
                 manualSpot == ManualSpot(options.manualCloses, symbol)
                 effectivePrice == OrElse(manualSpot, lastBar.close)
                 liveDepth  == computeLivePullbackIntoPrev(
                                   [high |-> Fin(prevBar.high), low |-> Fin(prevBar.low)],
                                   Fin(effectivePrice), t.macroTrend)
                 zones      == findStructuralZones(bars, symbol, w.lookbackDays)
                 baseSpot   == OrElse(manualSpot, lastBar.close)
                 nearestZoneEstimate == computeNearestZoneInfo(zones, baseSpot, Some(t.atr20))
                 tradeOptions == [minRr |-> Some(<<min_rr, 1>>), spreadCap |-> None]
             IN  [threw |-> FALSE,
                  result |->
                    [kind |-> "ok", symbol |-> symbol,
                     macroTrend |-> t.macroTrend, trendDay |-> t.trendDay,
                     alignment |-> t.alignment, atr20 |-> t.atr20,
                     location |-> t.location, zones |-> zones,
                     trades |-> ScanTrades(t.macroTrend, bars, symbol, tradeOptions,
                                           w.lookbackDays),
                     lastClose |-> lastBar.close,
                     pullback |-> [depthIntoPrevPct |-> liveDepth,
                                   bucket |-> IF liveDepth # None
                                              THEN classifyPullbackBucket(liveDepth[1])
                                              ELSE Null],
                     nearestZone |-> nearestZoneEstimate]]

\* a faulty variant of CatchEntry: the thrown message is dropped
CatchEntry_Generic(symbol, message) ==
    [kind |-> "error", symbol |-> symbol, error |-> <<"Unexpected error while scanning">>]

\* scanMarket's catch block (what scanSymbol throws is an Error)
CatchEntry(symbol, message) ==
    [kind |-> "error", symbol |-> symbol, error |-> message]

\* a faulty variant of PairSymbol: every pair carries the symbol of the last task started
PairSymbol_Latest(symbols, i) == symbols[Len(symbols)]

\* the symbol the i-th task returns next to its entry
PairSymbol(symbols, i) == symbols[i]

\* the {symbol, entry} pair of scanMarket's i-th task
ScanPair(symbols, i, bars, options) ==
    LET outcome == scanSymbol(symbols[i], bars, options)
    IN  [symbol |-> PairSymbol(symbols, i),
         entry  |-> IF outcome.threw THEN CatchEntry(symbols[i], outcome.message)
                    ELSE outcome.result]

\* options.symbols when non-empty, else [...SYMBOLS]
EffectiveSymbols(requested) == IF Len(requested) > 0 THEN requested ELSE SYMBOLS

\* for (const {symbol, entry} of scanEntries) results[symbol] = entry
AssembleResults(pairs) ==
    [s \in {pairs[k].symbol : k \in 1..Len(pairs)} |->
        pairs[SetMax({k \in 1..Len(pairs) : pairs[k].symbol = s})].entry]

\* Object.keys(results): the symbols in the order they were first inserted
RECURSIVE ObjectKeys(_, _)
ObjectKeys(pairs, seen) ==
    IF pairs = <<>> THEN <<>>
    ELSE IF Head(pairs).symbol \in seen THEN ObjectKeys(Tail(pairs), seen)
    ELSE <<Head(pairs).symbol>> \o ObjectKeys(Tail(pairs), seen \cup {Head(pairs).symbol})

(***************************************************************************)
(* live-prices.ts and the scan route                                       *)
(***************************************************************************)
\* what the price provider does for one symbol
PriceFeeds == {"env_missing", "request_fails", "bad_json", "no_quote", "tick"}

ErrorSnapshot(code, message) ==
    [spot |-> None, source |-> Null, error |-> code, message |-> message]

\* getCurrentPrice; tick is the mid price of the quote
getCurrentPrice(symbol, feed, tick) ==
    IF feed = "env_missing"
    THEN ErrorSnapshot("ENV_MISSING", "FX_API_URL or FX_API_KEY not set")
    ELSE IF feed = "request_fails"
    THEN ErrorSnapshot("HTTP_ERROR", "Live price request failed")
    ELSE IF feed = "bad_json"
    THEN ErrorSnapshot("PARSE_ERROR", "Unable to parse live price JSON")
    ELSE IF feed = "no_quote"
    THEN ErrorSnapshot("NO_TICK", "No quote data returned")
    ELSE [spot |-> Some(tick), source |-> "live", error |-> Null, message |-> Null]

\* {...a, ...b}
Spread(a, b) ==
    [f \in DOMAIN a \cup DOMAIN b |-> IF f \in DOMAIN b THEN b[f] ELSE a[f]]

\* step 3 of runScanWithLivePrices for one symbol
AttachLivePrice(symbolResult, spotInfo) ==
    LET hasField(f) == f \in DOMAIN symbolResult
        nearest == IF spotInfo.spot # None
                   THEN computeNearestZoneInfo(
                            IF hasField("zones") THEN symbolResult.zones ELSE <<>>,
                            spotInfo.spot[1],
                            IF hasField("atr20") THEN Some(symbolResult.atr20) ELSE None)
                   ELSE None
    IN  Spread(symbolResult, [livePrice |-> spotInfo, nearestZone |-> nearest])

(***************************************************************************)
(* State                                                                   *)
(***************************************************************************)
VARIABLES
    mBars,      \* trade models: the bar window handed to the generators
    mTrend,     \* trade models: the macro trend handed to the generators
    mSymbol,    \* trade models: the symbol
    mOptions,   \* trade models: {minRr, spreadCap}
    mTrades,    \* trade models: the trades the generators returned
    mPc,        \* trade models: "input" before the generators ran, then "done"
    lpPrev,     \* live pullback: the previous bar {high, low}
    lpPrice,    \* live pullback: the current price
    lpTrend,    \* live pullback: the macro trend
    lpDepth,    \* live pullback: the value returned (None is null)
    lpPc,       \* live pullback: "input", then "done"
    cpBars,     \* pair records: the bar sequence
    cpIndex,    \* pair records: the index i (from 0) of the bar that is varied
    cpAltBar,   \* pair records: the bar put in place of bars[i] in the second run
    cpParams,   \* pair records: {trendLookback, lookbackDays}
    cpRecords,  \* pair records: the records of the first run
    cpAltRecords, \* pair records: the records of the second run
    cpPc,       \* pair records: "first", "second", then "done"
    attempt,    \* fetchWithRetry: the loop counter
    fetched,    \* fetchWithRetry: the outcome of every fetch so far, in order
    waits,      \* fetchWithRetry: the backoff delays slept so far, in ms
    settled,    \* fetchWithRetry: the response returned or the error thrown
    rPc,        \* fetchWithRetry: "fetch", "backoff", "returned" or "threw"
    sInput,     \* scan: the request {request, params, manual} and the bar files
    symbols,    \* scan: scanMarket's symbol list
    asked,      \* scan: the lookback each task asked the bar source for
    tBars,      \* scan: the bars each task got from getDailyOhlc, and their origin
    tPc,        \* scan: each task "awaitBars" or "settled"
    scanEntries, \* scan: the {symbol, entry} pair of each settled task
    reordered,  \* scan: some task settled before one started earlier
    results,    \* scan: the symbols object of the response
    prices,     \* scan: the live price snapshot per key of the response
    sPc,        \* scan: "request", "scanning", "pricing" or "responded"
    fArgs,      \* function call: the arguments
    fOut,       \* function call: the value returned
    fPc         \* function call: "input" before the call, then "done"

modelVars == <<mBars, mTrend, mSymbol, mOptions, mTrades, mPc>>

pullbackVars == <<lpPrev, lpPrice, lpTrend, lpDepth, lpPc>>

pairVars == <<cpBars, cpIndex, cpAltBar, cpParams, cpRecords, cpAltRecords, cpPc>>

retryVars == <<attempt, fetched, waits, settled, rPc>>

scanVars == <<sInput, symbols, asked, tBars, tPc, scanEntries, reordered, results,
              prices, sPc>>

callVars == <<fArgs, fOut, fPc>>

vars == <<modelVars, pullbackVars, pairVars, retryVars, scanVars, callVars>>

Bar(open, high, low, close, spread) ==
    [open |-> open, high |-> high, low |-> low, close |-> close, spread |-> spread]

Trends == {"Bull", "Bear", "Neutral"}

\* each specification below runs one part of the program; the other parts rest
ModelsIdle ==
    /\ mBars = <<>>
    /\ mTrend = Null
    /\ mSymbol = Null
    /\ mOptions = [minRr |-> None, spreadCap |-> None]
    /\ mTrades = <<>>
    /\ mPc = "idle"

PullbackIdle ==
    /\ lpPrev = [high |-> Fin(0), low |-> Fin(0)]
    /\ lpPrice = Fin(0)
    /\ lpTrend = Null
    /\ lpDepth = None
    /\ lpPc = "idle"

PairsIdle ==
    /\ cpBars = <<>>
    /\ cpIndex = 0
    /\ cpAltBar = Bar(0, 0, 0, 0, None)
    /\ cpParams = [trendLookback |-> 0, lookbackDays |-> 0]
    /\ cpRecords = <<>>
    /\ cpAltRecords = <<>>
    /\ cpPc = "idle"

RetryIdle ==
    /\ attempt = 0
    /\ fetched = <<>>
    /\ waits = <<>>
    /\ settled = <<>>
    /\ rPc = "idle"

ScanIdle ==
    /\ sInput = [request |-> <<>>, params |-> <<>>, manual |-> None, files |-> <<>>]
    /\ symbols = <<>>
    /\ asked = <<>>
    /\ tBars = <<>>
    /\ tPc = <<>>
    /\ scanEntries = <<>>
    /\ reordered = FALSE
    /\ results = <<>>
    /\ prices = <<>>
    /\ sPc = "idle"

CallIdle ==
    /\ fArgs = <<>>
    /\ fOut = <<>>
    /\ fPc = "idle"

(***************************************************************************)
(* Trade models: the generators applied to a bar window (scanSymbol's      *)
(* "Generate trades" step: zones and liquidity from the same window).      *)
(***************************************************************************)
\* bars of the price grid that close at their low or at their high; the open
\* is the close
GridBars ==
    {Bar(t[2], t[3], t[1], t[2], None) : t \in
        {t \in Prices \X Prices \X Prices : t[1] <= t[3] /\ t[2] \in {t[1], t[3]}}}

\* <<minRr, spreadCap, spread of the last bar>>
ModelOptionCases ==
    { <<None, None, None>>, <<Some(<<3, 2>>), None, None>>,
      <<Some(<<0, 1>>), None, None>>,
      <<None, Some(1), Some(2)>>, <<None, Some(3), Some(2)>> }

ModelSymbols == {"XAUUSD", "EURUSD"}

InitModels ==
    /\ \E b1 \in GridBars, b2 \in GridBars, b3 \in GridBars, oc \in ModelOptionCases :
          /\ mBars = <<b1, b2, [b3 EXCEPT !.spread = oc[3]]>>
          /\ mOptions = [minRr |-> oc[1], spreadCap |-> oc[2]]
    /\ mTrend \in Trends
    /\ mSymbol \in ModelSymbols
    /\ mTrades = <<>>
    /\ mPc = "input"
    /\ PullbackIdle /\ PairsIdle /\ RetryIdle /\ ScanIdle /\ CallIdle

GenerateTrades ==
    /\ mPc = "input"
    /\ mTrades' = ScanTrades(mTrend, mBars, mSymbol, mOptions, Len(mBars))
    /\ mPc' = "done"
    /\ UNCHANGED <<mBars, mTrend, mSymbol, mOptions>>
    /\ UNCHANGED <<pullbackVars, pairVars, retryVars, scanVars, callVars>>

NextModels == GenerateTrades

SpecModels == InitModels /\ [][NextModels]_vars

(***************************************************************************)
(* Live pullback: computeLivePullbackIntoPrev on one previous bar, price   *)
(* and macro trend.  The bar loader drops NaN fields (isNaN) but keeps     *)
(* Infinity; the price may be any JavaScript number.                       *)
(***************************************************************************)
\* live-pullback prices are StepPrice(0) .. StepPrice(MaxStep)
MaxStep == 8

StepPrice(k) == 85 + 5 * k

FiniteNums == {Fin(StepPrice(k)) : k \in 0..MaxStep}

InitPullback ==
    /\ lpPrev \in [high : FiniteNums \cup {Inf(1), Inf(-1)},
                   low  : FiniteNums \cup {Inf(1), Inf(-1)}]
    /\ lpPrice \in FiniteNums \cup {Inf(1), Inf(-1), NaN}
    /\ lpTrend \in Trends
    /\ lpDepth = None
    /\ lpPc = "input"
    /\ ModelsIdle /\ PairsIdle /\ RetryIdle /\ ScanIdle /\ CallIdle

ComputeLivePullback ==
    /\ lpPc = "input"
    /\ lpDepth' = computeLivePullbackIntoPrev(lpPrev, lpPrice, lpTrend)
    /\ lpPc' = "done"
    /\ UNCHANGED <<lpPrev, lpPrice, lpTrend>>
    /\ UNCHANGED <<modelVars, pairVars, retryVars, scanVars, callVars>>

NextPullback == ComputeLivePullback

SpecPullback == InitPullback /\ [][NextPullback]_vars

(***************************************************************************)
(* Pair records: buildCandlePairPullbacks run on a bar sequence and on the *)
(* same sequence with bars[i] replaced.                                     *)
(***************************************************************************)
\* three bars, the oldest one flat
InitPairs ==
    /\ \E b0 \in {b \in GridBars : b.low = b.high}, b1 \in GridBars, b2 \in GridBars :
          cpBars = <<b0, b1, b2>>
    /\ cpIndex \in 1..2
    /\ cpAltBar \in GridBars
    /\ cpParams \in [trendLookback : {1, 2}, lookbackDays : {2, lookback_days}]
    /\ cpRecords = <<>>
    /\ cpAltRecords = <<>>
    /\ cpPc = "first"
    /\ ModelsIdle /\ PullbackIdle /\ RetryIdle /\ ScanIdle /\ CallIdle

BuildPairs ==
    /\ cpPc = "first"
    /\ cpRecords' = buildCandlePairPullbacks(cpBars, cpParams.trendLookback,
                                             cpParams.lookbackDays)
    /\ cpPc' = "second"
    /\ UNCHANGED <<cpBars, cpIndex, cpAltBar, cpParams, cpAltRecords>>
    /\ UNCHANGED <<modelVars, pullbackVars, retryVars, scanVars, callVars>>

BuildPairsChanged ==
    /\ cpPc = "second"
    /\ cpAltRecords' = buildCandlePairPullbacks([cpBars EXCEPT ![cpIndex + 1] = cpAltBar],
                                                cpParams.trendLookback,
                                                cpParams.lookbackDays)
    /\ cpPc' = "done"
    /\ UNCHANGED <<cpBars, cpIndex, cpAltBar, cpParams, cpRecords>>
    /\ UNCHANGED <<modelVars, pullbackVars, retryVars, scanVars, callVars>>

NextPairs == BuildPairs \/ BuildPairsChanged

SpecPairs == InitPairs /\ [][NextPairs]_vars

(***************************************************************************)
(* fetchWithRetry (live price request)                                     *)
(***************************************************************************)
maxAttempts == 3

\* what one fetch can do: resolve with a status or reject with a network error
Statuses == {200, 204, 404, 429, 500, 503}

NetworkErrors == {"ECONNRESET", "ETIMEDOUT"}

Response(status) == [kind |-> "response", status |-> status, error |-> ""]

Rejection(err) == [kind |-> "error", status |-> 0, error |-> err]

\* res.ok
ResponseOk(status) == 200 <= status /\ status <= 299

\* a faulty variant of ReturnsResponse: a 4xx is retried like a 5xx
ReturnsResponse_OnlyOk(status, n) == ResponseOk(status) \/ n = maxAttempts

\* if (res.ok || res.status < 500 || attempt === maxAttempts) return res
ReturnsResponse(status, n) == ResponseOk(status) \/ status < 500 \/ n = maxAttempts

InitRetry ==
    /\ attempt = 1
    /\ fetched = <<>>
    /\ waits = <<>>
    /\ settled = <<>>
    /\ rPc = "fetch"
    /\ ModelsIdle /\ PullbackIdle /\ PairsIdle /\ ScanIdle /\ CallIdle

\* await fetch(url, init) resolves
FetchResolves ==
    /\ rPc = "fetch"
    /\ \E status \in Statuses :
          /\ fetched' = Append(fetched, Response(status))
          /\ IF ReturnsResponse(status, attempt)
             THEN /\ settled' = <<Response(status)>>
                  /\ rPc' = "returned"
                  /\ waits' = waits
             ELSE /\ waits' = Append(waits, 150 * attempt)
                  /\ rPc' = "backoff"
                  /\ settled' = settled
    /\ UNCHANGED attempt
    /\ UNCHANGED <<modelVars, pullbackVars, pairVars, scanVars, callVars>>

\* await fetch(url, init) rejects: the catch block
FetchRejects ==
    /\ rPc = "fetch"
    /\ \E err \in NetworkErrors :
          /\ fetched' = Append(fetched, Rejection(err))
          /\ IF attempt = maxAttempts
             THEN /\ settled' = <<Rejection(err)>>
                  /\ rPc' = "threw"
                  /\ waits' = waits
             ELSE /\ waits' = Append(waits, 150 * attempt)
                  /\ rPc' = "backoff"
                  /\ settled' = settled
    /\ UNCHANGED attempt
    /\ UNCHANGED <<modelVars, pullbackVars, pairVars, scanVars, callVars>>

\* the backoff timer fires and the loop goes round: attempt++
\* (leaving the loop throws lastError)
BackoffElapses ==
    /\ rPc = "backoff"
    /\ attempt' = attempt + 1
    /\ IF attempt + 1 <= maxAttempts
       THEN rPc' = "fetch" /\ settled' = settled
       ELSE rPc' = "threw" /\ settled' = <<fetched[Len(fetched)]>>
    /\ UNCHANGED <<fetched, waits>>
    /\ UNCHANGED <<modelVars, pullbackVars, pairVars, scanVars, callVars>>

NextRetry == FetchResolves \/ FetchRejects \/ BackoffElapses

\* every fetch settles and every timer fires
SpecRetry == InitRetry /\ [][NextRetry]_vars /\ WF_vars(NextRetry)

(***************************************************************************)
(* The scan: POST /api/scan -> runScanWithLivePrices -> scanMarket ->      *)
(* scanSymbol per symbol, then the live prices.                            *)
(***************************************************************************)
\* a symbol's CSV file holds 0 (the load fails), ShortFileBars or MaxFileBars bars
MaxFileBars == 5

ShortFileBars == 3

FileLens == {0, ShortFileBars, MaxFileBars}

\* options.symbols
Requests ==
    {<<>>} \cup {<<s>> : s \in SymbolCode}
        \cup {<<"XAUUSD", "EURUSD">>, <<"EURUSD", "XAUUSD">>, <<"GBPJPY", "GBPUSD">>}

Params(structureLookback, trendLookback, atrWindow, pullbackWindow) ==
    [structureLookback |-> structureLookback, trendLookback |-> trendLookback,
     atrWindow |-> atrWindow, pullbackWindow |-> pullbackWindow]

\* needs 4 bars, for the structure window
BaseParams == Params(Some(4), Some(1), Some(2), Some(2))

\* options.params: every window in turn is the one that needs most bars
ParamCases ==
    { BaseParams,
      Params(Some(3), Some(1), Some(2), Some(2)),
      Params(Some(0), Some(0), Some(0), Some(0)),
      Params(Some(1), Some(3), Some(2), Some(2)),
      Params(Some(1), Some(1), Some(3), Some(2)),
      Params(Some(1), Some(1), Some(2), Some(3)),
      Params(None, None, None, Some(2)) }

\* options.manualCloses[first requested symbol]
ManualCases ==
    { None, Some([enabled |-> TRUE, close |-> PriceAt(1)]),
      Some([enabled |-> FALSE, close |-> PriceAt(1)]) }

\* the draws of Math.random
Seeds == {0, 1}

\* the mid price a live quote carries
LiveTick == PriceAt(2)

\* the requests and bar files scanned: at most two files are short or missing
\* (one when all four symbols are scanned), and a request for several symbols
\* uses BaseParams and no manual close
ScanInputs ==
    {in \in [request : Requests, params : ParamCases, manual : ManualCases,
             files : [SymbolCode -> FileLens]] :
        /\ \A s \in SymbolCode \ Range(EffectiveSymbols(in.request)) :
              in.files[s] = MaxFileBars
        /\ Cardinality({s \in SymbolCode : in.files[s] # MaxFileBars})
              <= (IF Len(in.request) = 0 THEN 1 ELSE 2)
        /\ Len(in.request) # 1 => in.params = BaseParams /\ in.manual = None}

\* the ScanOptions of the request
ScanOptionsOf(in) ==
    [params |-> in.params,
     manualCloses |-> [s \in SymbolCode |->
                          IF s = EffectiveSymbols(in.request)[1] THEN in.manual ELSE None]]

InitScan ==
    /\ sInput \in ScanInputs
    /\ symbols = <<>>
    /\ asked = <<>>
    /\ tBars = <<>>
    /\ tPc = <<>>
    /\ scanEntries = <<>>
    /\ reordered = FALSE
    /\ results = <<>>
    /\ prices = <<>>
    /\ sPc = "request"
    /\ ModelsIdle /\ PullbackIdle /\ PairsIdle /\ RetryIdle /\ CallIdle

\* scanMarket maps scanSymbol over the symbols: every call runs to its await,
\* and getDailyOhlc has read the file (or drawn synthetic bars) by then
StartScan ==
    /\ sPc = "request"
    /\ LET list == EffectiveSymbols(sInput.request)
           need == neededBars(ScanWindows(sInput.params))
       IN  /\ symbols' = list
           /\ asked' = [i \in 1..Len(list) |-> need]
           /\ \E seeds \in [1..Len(list) -> Seeds] :
                 tBars' = [i \in 1..Len(list) |->
                              getDailyOhlc(list[i], need, sInput.files[list[i]], seeds[i])]
           /\ tPc' = [i \in 1..Len(list) |-> "awaitBars"]
           /\ scanEntries' = [i \in 1..Len(list) |-> <<>>]
    /\ sPc' = "scanning"
    /\ UNCHANGED <<sInput, reordered, results, prices>>
    /\ UNCHANGED <<modelVars, pullbackVars, pairVars, retryVars, callVars>>

\* the i-th scanSymbol resumes with its bars and its task returns {symbol, entry}
ScanSymbolResumes(i) ==
    /\ sPc = "scanning"
    /\ tPc[i] = "awaitBars"
    /\ scanEntries' = [scanEntries EXCEPT
                          ![i] = <<ScanPair(symbols, i, tBars[i].bars, ScanOptionsOf(sInput))>>]
    /\ tPc' = [tPc EXCEPT ![i] = "settled"]
    /\ reordered' = (reordered \/ \E j \in 1..(i - 1) : tPc[j] = "awaitBars")
    /\ UNCHANGED <<sInput, symbols, asked, tBars, results, prices, sPc>>
    /\ UNCHANGED <<modelVars, pullbackVars, pairVars, retryVars, callVars>>

\* Promise.all resolves: scanMarket fills results and returns; the route asks
\* for the price of every key of the response
ScanMarketReturns ==
    /\ sPc = "scanning"
    /\ \A i \in 1..Len(symbols) : tPc[i] = "settled"
    /\ LET pairs == [i \in 1..Len(symbols) |-> scanEntries[i][1]]
       IN  /\ results' = AssembleResults(pairs)
           /\ prices' = [k \in 1..Len(ObjectKeys(pairs, {})) |-> <<>>]
    /\ sPc' = "pricing"
    /\ UNCHANGED <<sInput, symbols, asked, tBars, tPc, scanEntries, reordered>>
    /\ UNCHANGED <<modelVars, pullbackVars, pairVars, retryVars, callVars>>

\* the keys of the scan response, in insertion order
RouteSymbols == ObjectKeys([i \in 1..Len(symbols) |-> scanEntries[i][1]], {})

\* getCurrentPrice(symbol) resolves
PriceResolves(k) ==
    /\ sPc = "pricing"
    /\ prices[k] = <<>>
    /\ \E feed \in PriceFeeds :
          prices' = [prices EXCEPT ![k] = <<getCurrentPrice(RouteSymbols[k], feed, LiveTick)>>]
    /\ UNCHANGED <<sInput, symbols, asked, tBars, tPc, scanEntries, reordered, results, sPc>>
    /\ UNCHANGED <<modelVars, pullbackVars, pairVars, retryVars, callVars>>

\* getCurrentPrice(symbol) rejects: the route's catch block
PriceRejects(k) ==
    /\ sPc = "pricing"
    /\ prices[k] = <<>>
    /\ prices' = [prices EXCEPT ![k] = <<ErrorSnapshot("HTTP_ERROR", "String(err)")>>]
    /\ UNCHANGED <<sInput, symbols, asked, tBars, tPc, scanEntries, reordered, results, sPc>>
    /\ UNCHANGED <<modelVars, pullbackVars, pairVars, retryVars, callVars>>

\* all prices are in: the route attaches livePrice and nearestZone to every entry
AttachLivePrices ==
    /\ sPc = "pricing"
    /\ \A k \in 1..Len(prices) : prices[k] # <<>>
    /\ results' = [s \in DOMAIN results |->
                      LET k == CHOOSE j \in 1..Len(RouteSymbols) : RouteSymbols[j] = s
                      IN  AttachLivePrice(results[s], prices[k][1])]
    /\ sPc' = "responded"
    /\ UNCHANGED <<sInput, symbols, asked, tBars, tPc, scanEntries, reordered, prices>>
    /\ UNCHANGED <<modelVars, pullbackVars, pairVars, retryVars, callVars>>

Next ==
    \/ StartScan
    \/ \E i \in 1..Len(symbols) : ScanSymbolResumes(i)
    \/ ScanMarketReturns
    \/ \E k \in 1..Len(prices) : PriceResolves(k)
    \/ \E k \in 1..Len(prices) : PriceRejects(k)
    \/ AttachLivePrices

Spec == InitScan /\ [][Next]_vars

(***************************************************************************)
(* Claims about the trade models                                           *)
(***************************************************************************)
EmittedTrades == Range(mTrades)

\* C2: every trade emitted by Models A, B and C passed all numeric gates: its
\* risk_price is strictly positive and at most the symbol's risk cap, its
\* rr = reward_price / risk_price is at least the effective minimum (the minRr
\* option, else 2.0) with equality accepted, and its status is VALID.
C2_EmittedTradesPassGates ==
    \A t \in EmittedTrades :
        /\ t.risk_price > 0
        /\ t.risk_price <= risk_cap[mSymbol]
        /\ t.rr = <<t.reward_price, t.risk_price>>
        /\ LET minRr == IF mOptions.minRr = None THEN <<2, 1>> ELSE mOptions.minRr[1]
           IN  t.reward_price * minRr[2] >= minRr[1] * t.risk_price
        /\ t.status = "VALID"

\* a trade of each model is emitted, one of them exactly at the default
\* minimum of 2.0
C2_Witness ==
    /\ mPc = "done"
    /\ mOptions.minRr = None
    /\ \E t \in EmittedTrades : t.model = "A" /\ t.reward_price = 2 * t.risk_price
    /\ \E t \in EmittedTrades : t.model = "B"
    /\ \E t \in EmittedTrades : t.model \in {"C1", "C2"}

\* C3: every emitted trade is geometrically well-formed for its direction:
\* a Long trade has stop < entry < tp1, a Short trade has tp1 < entry < stop.
C3_TradeGeometry ==
    \A t \in EmittedTrades :
        /\ t.direction = "Long" => t.stop < t.entry /\ t.entry < t.tp1
        /\ t.direction = "Short" => t.tp1 < t.entry /\ t.entry < t.stop

C3_Witness ==
    /\ mPc = "done"
    /\ \E t \in EmittedTrades : t.direction = "Long" /\ t.model = "A"
    /\ \E t \in EmittedTrades : t.direction = "Long" /\ t.model \in {"C1", "C2"}

C3_WitnessShort ==
    /\ mPc = "done"
    /\ \E t \in EmittedTrades : t.direction = "Short" /\ t.model = "A"
    /\ \E t \in EmittedTrades : t.direction = "Short" /\ t.model \in {"C1", "C2"}

(***************************************************************************)
(* Claims about the live pullback depth                                    *)
(***************************************************************************)
LiveRange == NumSub(lpPrev.high, lpPrev.low)

\* max(0, d) of the claim, for a finite bar and price
LiveDepthStated ==
    LET range == lpPrev.high[2] - lpPrev.low[2]
        d == IF lpTrend = "Bull" THEN lpPrev.high[2] - lpPrice[2]
             ELSE lpPrice[2] - lpPrev.low[2]
    IN  <<Max2(0, d), range>>

LiveDepthIsStated ==
    lpDepth # None =>
        lpDepth[1][1] * LiveDepthStated[2] = LiveDepthStated[1] * lpDepth[1][2]

\* C9 as stated: computeLivePullbackIntoPrev returns null exactly when the
\* macro trend is Neutral, the prior bar's range is <= 0 or the price is not
\* finite; otherwise it returns max(0, d), with no upper clamp.
C9_NullExactlyAsStated ==
    lpPc = "done" =>
        /\ lpDepth = None <=>
              (lpTrend = "Neutral" \/ NumLeZero(LiveRange) \/ ~IsFinite(lpPrice))
        /\ LiveDepthIsStated

\* C9 amended: computeLivePullbackIntoPrev returns null exactly when the macro
\* trend is Neutral, the prior bar's range is not finite or is <= 0, or the
\* price is not finite; otherwise it returns max(0, d) with
\* d = (prev.high - price)/range for Bull and (price - prev.low)/range for
\* Bear, with no upper clamp.
C9_LivePullbackDepth ==
    lpPc = "done" =>
        /\ lpDepth = None <=>
              (lpTrend = "Neutral" \/ ~IsFinite(LiveRange) \/ NumLeZero(LiveRange)
                 \/ ~IsFinite(lpPrice))
        /\ LiveDepthIsStated

\* prior high 110, low 100, price 85, Bull: depth 2.5, bucket '1.0+'
C9_Witness ==
    /\ lpPc = "done"
    /\ lpPrev = [high |-> Fin(110), low |-> Fin(100)]
    /\ lpPrice = Fin(85)
    /\ lpTrend = "Bull"
    /\ lpDepth = Some(<<25, 10>>)
    /\ classifyPullbackBucket(lpDepth[1]) = "1.0+"

(***************************************************************************)
(* Claims about the pair records                                           *)
(***************************************************************************)
RecordsAt(records, i) == {records[k] : k \in {j \in 1..Len(records) : records[j].currIndex = i}}

\* C10: the scenario key (macroTrendPrev, trendDayPrev, alignmentPrev) of the
\* record of the pair (bars[i-1], bars[i]) depends on bars[0..i-1] only: two
\* bar sequences that differ only in bars[i] give that record the same
\* scenario key whenever it exists in both.
C10_ScenarioIgnoresRetraceBar ==
    cpPc = "done" =>
        \A r \in RecordsAt(cpRecords, cpIndex), q \in RecordsAt(cpAltRecords, cpIndex) :
            r.scenario = q.scenario

\* the record exists in both runs, and the two bars at i are different trend
\* days against bars[i-1]
C10_Witness ==
    /\ cpPc = "done"
    /\ RecordsAt(cpRecords, cpIndex) # {}
    /\ RecordsAt(cpAltRecords, cpIndex) # {}
    /\ classifyTrendDayForPair(cpBars[cpIndex], cpBars[cpIndex + 1])
          # classifyTrendDayForPair(cpBars[cpIndex], cpAltBar)
    /\ \E r \in RecordsAt(cpRecords, cpIndex) : r.scenario.alignmentPrev = "AlignedLong"

(***************************************************************************)
(* Claims about fetchWithRetry                                             *)
(***************************************************************************)
Transient(outcome) == outcome.kind = "error" \/ outcome.status >= 500

RetrySafety ==
    /\ Len(fetched) <= 3
    /\ \A k \in 1..Len(waits) : waits[k] = 150 * k
    /\ Len(waits) = IF rPc \in {"returned", "threw"} THEN Len(fetched) - 1 ELSE Len(fetched)
    /\ \A k \in 1..Len(fetched) :
          IF Transient(fetched[k])
          THEN k < Len(fetched) \/ rPc \in {"backoff", "fetch"} \/ k = 3
          ELSE k = Len(fetched) /\ rPc = "returned"
    /\ rPc = "backoff" => Len(fetched) < 3
    /\ rPc = "returned" => /\ settled = <<fetched[Len(fetched)]>>
                           /\ settled[1].kind = "response"
                           /\ settled[1].status < 500 \/ Len(fetched) = 3
    /\ rPc = "threw" => /\ settled = <<fetched[Len(fetched)]>>
                        /\ settled[1].kind = "error"
                        /\ Len(fetched) = 3

\* C7: fetchWithRetry performs at most 3 fetch attempts and always terminates:
\* a further attempt starts only after an attempt that threw or returned a
\* status >= 500, after a wait of 150*attempt ms; the first response that is
\* ok or below 500 is returned at once; after the third attempt the last 5xx
\* response is returned or the last error rethrown, without another wait.
C7_BoundedRetry ==
    /\ []RetrySafety
    /\ <>(rPc \in {"returned", "threw"})

\* three attempts, two waits, the last 5xx response returned
C7_Witness ==
    /\ rPc = "returned"
    /\ Len(fetched) = 3
    /\ waits = <<150, 300>>
    /\ fetched[1].kind = "error"
    /\ settled[1].status >= 500

(***************************************************************************)
(* Claims about the scan                                                   *)
(***************************************************************************)
Requested == IF Len(sInput.request) > 0 THEN sInput.request ELSE SYMBOLS

BarsGot(i) == Len(tBars[i].bars)

\* the Error scanSymbol throws for task i
InsufficientData(i) ==
    <<"Insufficient data for", Requested[i], "got", BarsGot(i), "need", asked[i]>>

\* C1: scanMarket resolves with exactly one entry per requested symbol: an
\* entry of kind 'error' carrying the thrown message for each symbol whose
\* scanSymbol threw, an entry of kind 'ok' for every other symbol; a failure
\* of one symbol never removes or changes another symbol's entry.
C1_OneEntryPerSymbol ==
    sPc = "pricing" =>
        /\ DOMAIN results = Range(Requested)
        /\ \A i \in 1..Len(Requested) :
              LET s == Requested[i]
              IN  IF BarsGot(i) < asked[i]
                  THEN results[s] = [kind |-> "error", symbol |-> s,
                                     error |-> InsufficientData(i)]
                  ELSE results[s].kind = "ok" /\ results[s].symbol = s

\* all four symbols scanned, exactly one of them failed
C1_Witness ==
    /\ sPc = "pricing"
    /\ Len(symbols) = 4
    /\ Cardinality({s \in DOMAIN results : results[s].kind = "error"}) = 1
    /\ Cardinality({s \in DOMAIN results : results[s].kind = "ok"}) = 3

\* C4: scanSymbol asks the bar source for
\* max(structure lookback, ATR window + 1, pullback lookback + 1, trend lookback + 1)
\* bars, the windows floored at 1, 2, 2 and 1; when fewer bars come back the
\* symbol's entry is an error entry, never an 'ok' result on a partial window.
C4_NeededBars ==
    sPc # "request" =>
        \A i \in 1..Len(symbols) :
            LET p == sInput.params
                structure == Max2(1, IF p.structureLookback = None THEN 20
                                     ELSE p.structureLookback[1])
                atr       == Max2(2, IF p.atrWindow = None THEN 20 ELSE p.atrWindow[1])
                pullback  == Max2(2, IF p.pullbackWindow = None THEN pullback_lookback_days
                                     ELSE p.pullbackWindow[1])
                trend     == Max2(1, IF p.trendLookback = None THEN 10
                                     ELSE p.trendLookback[1])
                need      == SetMax({structure, atr + 1, pullback + 1, trend + 1})
            IN  /\ asked[i] = need
                /\ scanEntries[i] # <<>> =>
                      LET e == scanEntries[i][1].entry
                      IN  /\ BarsGot(i) < need =>
                                /\ e.kind = "error"
                                /\ e.error = <<"Insufficient data for", symbols[i],
                                               "got", BarsGot(i), "need", need>>
                          /\ e.kind = "ok" =>
                                /\ BarsGot(i) >= structure
                                /\ BarsGot(i) >= atr + 1
                                /\ BarsGot(i) >= pullback + 1
                                /\ BarsGot(i) >= trend + 1

\* the pullback window alone asks for a fourth bar, the file has three
C4_Witness ==
    /\ sPc = "scanning"
    /\ sInput.params = Params(Some(1), Some(1), Some(2), Some(3))
    /\ \E i \in 1..Len(symbols) :
          /\ scanEntries[i] # <<>>
          /\ scanEntries[i][1].entry.kind = "error"
          /\ BarsGot(i) = 3
          /\ asked[i] = 4

\* C5: when loading a symbol's bars fails (the bar file is missing, unreadable,
\* has no valid header or yields no bars), that symbol's scan entry is an
\* error entry; the scan never reports an 'ok' result for such a symbol.
C5_FailedLoadGivesError ==
    sPc \in {"scanning", "pricing"} =>
        \A i \in 1..Len(symbols) :
            (scanEntries[i] # <<>> /\ sInput.files[symbols[i]] = 0)
                => scanEntries[i][1].entry.kind = "error"

\* the entry the scan of symbol number i produces from its own bars
OwnEntry(i) ==
    LET outcome == scanSymbol(symbols[i], tBars[i].bars, ScanOptionsOf(sInput))
    IN  IF outcome.threw
        THEN [kind |-> "error", symbol |-> symbols[i], error |-> outcome.message]
        ELSE outcome.result

\* scanMarket has just returned its response
ScanMarketReturned == sPc = "pricing" /\ \A k \in 1..Len(prices) : prices[k] = <<>>

\* C6: the scanMarket response does not depend on the order in which the
\* per-symbol scans complete: for every interleaving, results[s] holds the
\* entry produced by the scan of symbol s itself, and no symbol's scan waits
\* for another symbol's result.
C6_OrderInsensitive ==
    /\ [](ScanMarketReturned =>
            \A i \in 1..Len(symbols) :
                /\ symbols[i] \in DOMAIN results
                /\ results[symbols[i]] = scanEntries[i][1].entry
                /\ results[symbols[i]] = OwnEntry(i))
    /\ [][\A i \in 1..Len(tPc) :
             (tPc[i] = "awaitBars" /\ tPc'[i] = "settled") =>
                 \A j \in (1..Len(tPc)) \ {i} :
                     tPc'[j] = tPc[j] /\ scanEntries'[j] = scanEntries[j]]_vars

\* two symbols completed in the reverse of the request order, one failed
C6_Witness ==
    /\ sPc = "pricing"
    /\ reordered
    /\ Len(symbols) = 2
    /\ results[symbols[1]].kind = "error"
    /\ results[symbols[2]].kind = "ok"

\* C8: when the live price source yields a null spot for a symbol, the
\* response for that symbol still carries the nearest-zone information
\* computed from the fallback reference price (the enabled manual close, else
\* the last bar's close), with a live-price record stating the source and the
\* error.
C8_NullSpotKeepsNearestZone ==
    sPc = "responded" =>
        \A i \in 1..Len(symbols) :
            LET s == symbols[i]
                scanned == scanEntries[i][1].entry
            IN  (scanned.kind = "ok" /\ results[s].livePrice.spot = None) =>
                    /\ results[s].nearestZone # None
                    /\ results[s].nearestZone = scanned.nearestZone
                    /\ results[s].livePrice.source # Null
                    /\ results[s].livePrice.error # Null

(***************************************************************************)
(* Zone builder: findStructuralZones on a bar window.                      *)
(***************************************************************************)
\* opens and closes are ZoneLevel(0) .. ZoneLevel(MaxZoneLevel)
MaxZoneLevel == 6

\* 1000, 1004, 1008 (gaps inside the radius of 5), then 1020, 1030, ...
ZoneLevel(k) == IF k < 3 THEN 1000 + 4 * k ELSE 1000 + 10 * (k - 1)

ZoneLevels == {ZoneLevel(k) : k \in 0..MaxZoneLevel}

ZoneBars == {Bar(o, Max2(o, c), Min2(o, c), c, None) : o \in ZoneLevels, c \in ZoneLevels}

\* three bars; the bar outside a window of two is a flat one
InitZones ==
    /\ fArgs \in [bars : ZoneBars \X ZoneBars \X ZoneBars, symbol : {"XAUUSD"},
                  lookbackDays : {2, 3}]
    /\ fArgs.lookbackDays = 2 => fArgs.bars[1].open = fArgs.bars[1].close
    /\ fOut = <<>>
    /\ fPc = "input"
    /\ ModelsIdle /\ PullbackIdle /\ PairsIdle /\ RetryIdle /\ ScanIdle

\* findStructuralZones runs; the clusters it built are kept next to the zones
FindZones ==
    /\ fPc = "input"
    /\ fOut' = [clusters |-> ClusterPoints(
                                SortAsc(ZonePoints(LastN(fArgs.bars, fArgs.lookbackDays))),
                                oc_cluster_radius[fArgs.symbol]),
                zones |-> findStructuralZones(fArgs.bars, fArgs.symbol,
                                              fArgs.lookbackDays)]
    /\ fPc' = "done"
    /\ UNCHANGED <<fArgs, modelVars, pullbackVars, pairVars, retryVars, scanVars>>

SpecZones == InitZones /\ [][FindZones]_vars

ZoneWindow == LastN(fArgs.bars, fArgs.lookbackDays)

\* the position in clusters (1 ..) of the cluster holding the i-th sorted point
ClusterOf(clusters, i) ==
    CHOOSE k \in 1..Len(clusters) :
        LET before == Len(Flatten(SubSeq(clusters, 1, k - 1)))
        IN  before < i /\ i <= before + Len(clusters[k])

\* C11: findStructuralZones clusters the sorted opens and closes of the window
\* by single linkage: the clusters partition the multiset of points, and two
\* points consecutive in sorted order are in the same cluster if and only if
\* their gap is at most the cluster radius (so a cluster may be wider than the
\* radius); every zone returned spans one cluster.
C11_SingleLinkageClusters ==
    fPc = "done" =>
        LET points   == SortAsc(ZonePoints(ZoneWindow))
            clusters == fOut.clusters
            radius   == oc_cluster_radius[fArgs.symbol]
        IN  /\ Flatten(clusters) = points
            /\ \A k \in 1..Len(clusters) : Len(clusters[k]) >= 1
            /\ \A i \in 1..(Len(points) - 1) :
                   (ClusterOf(clusters, i) = ClusterOf(clusters, i + 1))
                       <=> (points[i + 1] - points[i] <= radius)
            /\ \A z \in 1..Len(fOut.zones) :
                   \E k \in 1..Len(clusters) :
                       /\ fOut.zones[z].zone_low = clusters[k][1]
                       /\ fOut.zones[z].zone_high = clusters[k][Len(clusters[k])]

\* points 1000, 1004, 1008 and 1050 with radius 5: {1000, 1004, 1008} and {1050}
C11_Witness ==
    /\ fPc = "done"
    /\ "clusters" \in DOMAIN fOut
    /\ fArgs.lookbackDays = 2
    /\ fOut.clusters = << <<1000, 1004, 1008>>, <<1050>> >>

\* the score the zone over [zone_low, zone_high] has in the window
WindowScore(window, zone_low, zone_high) ==
    2 * Cardinality({i \in 1..Len(window) :
                        zone_low <= window[i].close /\ window[i].close <= zone_high})
    + Cardinality({i \in 1..Len(window) :
                        zone_low <= window[i].open /\ window[i].open <= zone_high})

\* C12: findStructuralZones returns at most 5 zones in non-increasing score
\* order; a zone's score is 2 for each close plus 1 for each open of the window
\* inside [zone_low, zone_high], bounds included; no zone left out has a score
\* above that of a returned zone.
C12_TopFiveByScore ==
    fPc = "done" =>
        LET zones    == fOut.zones
            clusters == fOut.clusters
            spans    == {<<zones[z].zone_low, zones[z].zone_high>> : z \in 1..Len(zones)}
        IN  /\ Len(zones) = Min2(5, Len(clusters))
            /\ \A z \in 1..Len(zones) :
                   zones[z].score = WindowScore(ZoneWindow, zones[z].zone_low,
                                                zones[z].zone_high)
            /\ \A z \in 1..(Len(zones) - 1) : zones[z].score >= zones[z + 1].score
            /\ \A k \in 1..Len(clusters) :
                   LET low  == clusters[k][1]
                       high == clusters[k][Len(clusters[k])]
                   IN  <<low, high>> \notin spans =>
                          \A z \in 1..Len(zones) :
                              WindowScore(ZoneWindow, low, high) <= zones[z].score

\* six clusters: five zones come back, the best scored first, one is left out
C12_Witness ==
    /\ fPc = "done"
    /\ "zones" \in DOMAIN fOut
    /\ Len(fOut.clusters) = 6
    /\ Len(fOut.zones) = 5
    /\ fOut.zones[1].score > fOut.zones[5].score

(***************************************************************************)
(* Trend classifier: classifyTrend on a bar window.                        *)
(***************************************************************************)
\* daily bars over the price grid: low <= close <= high, the open is the close
OhlcBars ==
    {Bar(t[2], t[3], t[1], t[2], None) : t \in
        {t \in Prices \X Prices \X Prices : t[1] <= t[2] /\ t[2] <= t[3]}}

\* the longest bar series has MaxPairs + 1 bars
MaxPairs == 7

\* how a bar of a series stands to the bar before it: a close above its high,
\* a close below its low, the same bar again, or a wick above its high with a
\* close back inside
Moves == {"up", "down", "flat", "fakeout"}

WalkLevel(moves, k) ==
    1000 + 20 * (Cardinality({j \in 1..k : moves[j] = "up"})
                 - Cardinality({j \in 1..k : moves[j] = "down"}))

\* the bar series of a sequence of moves, oldest bar first
WalkBars(moves) ==
    [k \in 1..(Len(moves) + 1) |->
        LET level == WalkLevel(moves, k - 1)
            wick  == IF k > 1 /\ moves[k - 1] = "fakeout" THEN 10 ELSE 5
        IN  Bar(level, level + wick, level - 5, level, None)]

\* one bar or two bars of the grid, or a series of MaxPairs + 1 bars; the ATR
\* window is shorter than, as long as or longer than the series
InitTrend ==
    /\ \/ \E cur \in OhlcBars :
              fArgs = [bars |-> <<cur>>, lookbackDays |-> 2, atrWindow |-> 2,
                       trendLookback |-> 1]
       \/ \E prev \in OhlcBars, cur \in OhlcBars, atrWindow \in {2, 3} :
              fArgs = [bars |-> <<prev, cur>>, lookbackDays |-> 2, atrWindow |-> atrWindow,
                       trendLookback |-> 1]
       \/ \E moves \in [1..MaxPairs -> Moves], trendLookback \in {4, MaxPairs},
             atrWindow \in {2, 4} :
              fArgs = [bars |-> WalkBars(moves), lookbackDays |-> MaxPairs + 1,
                       atrWindow |-> atrWindow, trendLookback |-> trendLookback]
    /\ fOut = <<>>
    /\ fPc = "input"
    /\ ModelsIdle /\ PullbackIdle /\ PairsIdle /\ RetryIdle /\ ScanIdle

ClassifyTrend ==
    /\ fPc = "input"
    /\ fOut' = classifyTrend(fArgs.bars, fArgs.lookbackDays, fArgs.atrWindow,
                             fArgs.trendLookback)
    /\ fPc' = "done"
    /\ UNCHANGED <<fArgs, modelVars, pullbackVars, pairVars, retryVars, scanVars>>

SpecTrend == InitTrend /\ [][ClassifyTrend]_vars

\* C13: for a pair of bars (prev, cur) the trend day is Bull if and only if
\* cur.high > prev.high, cur.close > prev.high and cur.close is not below
\* prev.low; Bear if and only if cur.low < prev.low, cur.close < prev.low and
\* cur.close is not above prev.high; Neutral in every other case.
C13_TrendDayOfPair ==
    (fPc = "done" /\ Len(fArgs.bars) = 2) =>
        LET prev == fArgs.bars[1]
            cur  == fArgs.bars[2]
            bull == cur.high > prev.high /\ cur.close > prev.high
                    /\ ~(cur.close < prev.low)
            bear == cur.low < prev.low /\ cur.close < prev.low
                    /\ ~(cur.close > prev.high)
        IN  /\ fOut.trendDay = "Bull" <=> bull
            /\ fOut.trendDay = "Bear" <=> bear
            /\ fOut.trendDay = "Neutral" <=> (~bull /\ ~bear)

\* the bar broke the prior high and closed back inside the prior range
C13_Witness ==
    /\ fPc = "done"
    /\ Len(fArgs.bars) = 2
    /\ fArgs.bars[2].high > fArgs.bars[1].high
    /\ fArgs.bars[2].close <= fArgs.bars[1].high
    /\ fArgs.bars[2].close >= fArgs.bars[1].low
    /\ fOut.trendDay = "Neutral"

\* the number of trend days of one direction among the pairs of the trend window
TrendDayCount(direction) ==
    LET window == LastN(fArgs.bars, Max2(fArgs.trendLookback + 1, 2))
    IN  Cardinality({i \in 1..(Len(window) - 1) :
            classifyTrendDayForPair(window[i], window[i + 1]) = direction})

\* C14: with bull and bear the numbers of Bull and Bear trend days among the
\* pairs of the trend window, the macro trend is Bull if and only if
\* bull / (bull + bear) >= 0.6 and bull > bear, Bear if and only if
\* bear / (bull + bear) >= 0.6 and bear > bull, and Neutral otherwise, also
\* when there is no trend day; Neutral days are not in the denominator.
C14_MacroTrendDominance ==
    fPc = "done" =>
        LET bull == TrendDayCount("Bull")
            bear == TrendDayCount("Bear")
            isBull == bull + bear > 0 /\ 10 * bull >= 6 * (bull + bear) /\ bull > bear
            isBear == bull + bear > 0 /\ 10 * bear >= 6 * (bull + bear) /\ bear > bull
        IN  /\ fOut.macroTrend = "Bull" <=> isBull
            /\ fOut.macroTrend = "Bear" <=> isBear
            /\ fOut.macroTrend = "Neutral" <=> (~isBull /\ ~isBear)

\* three Bull days, two Bear days and two Neutral days: 3/5 is enough for Bull
C14_Witness ==
    /\ fPc = "done"
    /\ Len(fArgs.bars) = MaxPairs + 1
    /\ fArgs.trendLookback = MaxPairs
    /\ TrendDayCount("Bull") = 3
    /\ TrendDayCount("Bear") = 2
    /\ fOut.macroTrend = "Bull"


\* ---------------------------------------------------------------------------
\* The nearest zone of a spot, called on its own
\* ---------------------------------------------------------------------------

\* the longest zone list of a call
MaxZones == 2

\* zones as a caller can hand them over, told apart by their score: two
\* ordinary ones, one with a stored mid of 0, one with a stored mid that is
\* NaN, one built from infinite prices, one with a NaN lower bound
NearestZones ==
    { [zone_low |-> Fin(950),  zone_high |-> Fin(1050), zone_mid |-> Fin(1000), score |-> 5],
      [zone_low |-> Fin(1000), zone_high |-> Fin(1010), zone_mid |-> Fin(1005), score |-> 4],
      [zone_low |-> Fin(990),  zone_high |-> Fin(1010), zone_mid |-> Fin(0),    score |-> 3],
      [zone_low |-> Fin(1000), zone_high |-> Fin(1002), zone_mid |-> NaN,       score |-> 2],
      [zone_low |-> Inf(1),    zone_high |-> Inf(1),    zone_mid |-> Inf(1),    score |-> 1],
      [zone_low |-> NaN,       zone_high |-> Fin(1010), zone_mid |-> Fin(1000), score |-> 6] }

NearestZoneLists == UNION { [1..n -> NearestZones] : n \in 0..MaxZones }

\* spots at, just inside and just outside each threshold of the mids 1000,
\* 1001 and 1005
NearestSpots ==
    { Fin(999), Fin(1000), Fin(1001), Fin(1002), Fin(1003), Fin(1005),
      Fin(1006), Fin(1010), Fin(1011), NaN, Inf(1) }

\* the ATR: null, 0, 10, 12.5 and 20 in price units
NearestAtrs == { None, Some(<<0, 1>>), Some(<<10, 1>>), Some(<<25, 2>>), Some(<<20, 1>>) }

InitNearest ==
    /\ fArgs \in [zones : NearestZoneLists, spot : NearestSpots, atr20 : NearestAtrs]
    /\ fOut = <<>>
    /\ fPc = "idle"
    /\ ModelsIdle /\ PullbackIdle /\ PairsIdle /\ RetryIdle /\ ScanIdle

NearestZone ==
    /\ fPc = "idle"
    /\ fOut' = NearestZoneInfoOf(fArgs.zones, fArgs.spot, fArgs.atr20)
    /\ fPc' = "done"
    /\ UNCHANGED <<fArgs, modelVars, pullbackVars, pairVars, retryVars, scanVars>>

SpecNearest == InitNearest /\ [][NearestZone]_vars

\* C15: with a positive ATR the status is AT_ZONE exactly when the distance is
\* at most 0.10 of the ATR and NEAR exactly when it is above that and at most
\* 0.25 of the ATR; with a null or non-positive ATR the distance as a
\* percentage of the spot decides, AT_ZONE up to 0.1 and NEAR up to 0.5; FAR
\* otherwise
C15_StatusThresholds ==
    (fPc = "done" /\ fOut # None) =>
        LET info == fOut[1]
            d    == info.distance
            atr  == fArgs.atr20
        IN  IF atr # None /\ atr[1][1] > 0
            THEN /\ (info.status = "AT_ZONE") <=> (10 * d * atr[1][2] <= atr[1][1])
                 /\ (info.status = "NEAR") <=>
                        (10 * d * atr[1][2] > atr[1][1] /\ 100 * d * atr[1][2] <= 25 * atr[1][1])
                 /\ info.status \in {"AT_ZONE", "NEAR", "FAR"}
            ELSE /\ (info.status = "AT_ZONE") <=> (100 * d * 10 <= info.spot)
                 /\ (info.status = "NEAR") <=>
                        (100 * d * 10 > info.spot /\ 100 * d * 10 <= 5 * info.spot)
                 /\ info.status \in {"AT_ZONE", "NEAR", "FAR"}

\* a distance of exactly 0.25 of an ATR of 20 is NEAR
C15_Witness ==
    /\ fPc = "done" /\ fOut # None
    /\ fArgs.atr20 = Some(<<20, 1>>)
    /\ fOut[1].distance = 5
    /\ fOut[1].status = "NEAR"

\* without an ATR a distance of exactly 0.1 percent of the spot is AT_ZONE
PercentBoundaryReached ==
    /\ fPc = "done" /\ fOut # None
    /\ fArgs.atr20 = None
    /\ 1000 * fOut[1].distance = fOut[1].spot
    /\ fOut[1].status = "AT_ZONE"

\* the mid the statement measures a zone by: the stored one, or the middle of
\* the bounds when the stored one is 0 or not finite; None when neither is a number
StatedMid(z) ==
    IF IsFinite(z.zone_mid) /\ z.zone_mid[2] # 0 THEN Some(z.zone_mid[2])
    ELSE IF IsFinite(z.zone_low) /\ IsFinite(z.zone_high)
         THEN Some((z.zone_low[2] + z.zone_high[2]) \div 2)
         ELSE None

\* the result is zone k of the list, measured by its mid
IsNearestResult(k) ==
    LET z == fArgs.zones[k]
    IN  /\ fOut # None
        /\ fOut[1].score = z.score
        /\ fOut[1].zone_mid = StatedMid(z)[1]
        /\ fOut[1].distance = Abs(fArgs.spot[2] - StatedMid(z)[1])

\* zone k is the earliest of the zones in S at the least distance from the spot
EarliestNearest(k, S) ==
    /\ k \in S
    /\ \A j \in S :
          LET dk == Abs(fArgs.spot[2] - StatedMid(fArgs.zones[k])[1])
              dj == Abs(fArgs.spot[2] - StatedMid(fArgs.zones[j])[1])
          IN  dk < dj \/ (dk = dj /\ k <= j)

\* C16 as stated: null exactly for an empty list or a spot that is not
\* finite, otherwise the earliest zone at the least distance of all zones
C16_NearestAsStated ==
    fPc = "done" =>
        IF Len(fArgs.zones) = 0 \/ ~IsFinite(fArgs.spot) THEN fOut = None
        ELSE LET S == { k \in 1..Len(fArgs.zones) : StatedMid(fArgs.zones[k]) # None }
             IN  /\ fOut # None
                 /\ \E k \in S : EarliestNearest(k, S) /\ IsNearestResult(k)

\* C16: null for an empty list, a spot that is not finite, or no zone with
\* finite bounds; otherwise the earliest zone, among those with finite
\* bounds, whose mid (the middle of the bounds when the stored mid is 0 or not
\* finite) is at the least distance from the spot
C16_NearestAmongFiniteZones ==
    fPc = "done" =>
        LET S == { k \in 1..Len(fArgs.zones) : NearestZoneUsable(fArgs.zones[k]) }
        IN  IF Len(fArgs.zones) = 0 \/ ~IsFinite(fArgs.spot) \/ S = {} THEN fOut = None
            ELSE \E k \in S : EarliestNearest(k, S) /\ IsNearestResult(k)

\* two zones at the same distance, the first of them with a stored mid of 0:
\* the first is returned, with the middle of its bounds as its mid
C16_Witness ==
    /\ fPc = "done" /\ fOut # None
    /\ Len(fArgs.zones) = 2
    /\ fArgs.zones[1].zone_mid = Fin(0)
    /\ fArgs.zones[2].zone_mid = Fin(1000)
    /\ NearestZoneUsable(fArgs.zones[2])
    /\ fOut[1].score = fArgs.zones[1].score
    /\ fOut[1].zone_mid = 1000


\* ---------------------------------------------------------------------------
\* The sweet-spot signal
\* ---------------------------------------------------------------------------

\* depths and means are counted in thousandths: 0.05 is 50
MEAN_TOLERANCE == 50

\* parseBucketRange on the labels of the depth buckets: the numbers on either
\* side of the dash, a label with a plus read as its number up to 1; null and
\* a label without a dash or a plus have no range
parseBucketRange(bucket) ==
    IF bucket = Null THEN None
    ELSE IF bucket = "1.0+" THEN Some([min |-> 1000, max |-> 1000])
    ELSE IF bucket = "0-0.382" THEN Some([min |-> 0, max |-> 382])
    ELSE IF bucket = "0.382-0.5" THEN Some([min |-> 382, max |-> 500])
    ELSE IF bucket = "0.5-0.618" THEN Some([min |-> 500, max |-> 618])
    ELSE IF bucket = "0.618-0.786" THEN Some([min |-> 618, max |-> 786])
    ELSE IF bucket = "0.786-1.0" THEN Some([min |-> 786, max |-> 1000])
    ELSE None

\* a faulty variant of bucketsAlign: ranges that only share an endpoint do not align
bucketsAlign_Strict(currentBucket, dominantBucket) ==
    IF currentBucket = Null \/ dominantBucket = Null THEN FALSE
    ELSE IF currentBucket = dominantBucket THEN TRUE
    ELSE LET currentRange  == parseBucketRange(currentBucket)
             dominantRange == parseBucketRange(dominantBucket)
         IN  IF currentRange = None \/ dominantRange = None THEN FALSE
             ELSE /\ currentRange[1].min < dominantRange[1].max
                  /\ dominantRange[1].min < currentRange[1].max

bucketsAlign(currentBucket, dominantBucket) ==
    IF currentBucket = Null \/ dominantBucket = Null THEN FALSE
    ELSE IF currentBucket = dominantBucket THEN TRUE
    ELSE LET currentRange  == parseBucketRange(currentBucket)
             dominantRange == parseBucketRange(dominantBucket)
         IN  IF currentRange = None \/ dominantRange = None THEN FALSE
             ELSE /\ currentRange[1].min <= dominantRange[1].max
                  /\ dominantRange[1].min <= currentRange[1].max

\* a faulty variant of NearZone: any zone passes, however far
NearZone_AnyZone(nearestZone) == nearestZone # None

\* the first gate: a nearest zone with status AT_ZONE or NEAR
NearZone(nearestZone) ==
    /\ nearestZone # None
    /\ nearestZone[1].status \in {"AT_ZONE", "NEAR"}

\* ctx.pullbackDepth and ctx.typicalPullback are None or Some(record); pct and
\* meanPct are None (null) or Some(JavaScript number in thousandths)
evaluateSweetSpot(ctx) ==
    IF ~NearZone(ctx.nearestZone)
    THEN [isSweetSpot |-> FALSE, reason |-> "Price is not at or near a structural zone."]
    ELSE LET pullbackPct    == IF ctx.pullbackDepth = None THEN None
                               ELSE ctx.pullbackDepth[1].pct
             pullbackBucket == IF ctx.pullbackDepth = None THEN Null
                               ELSE ctx.pullbackDepth[1].bucket
             dominantBucket == IF ctx.typicalPullback = None THEN Null
                               ELSE ctx.typicalPullback[1].dominantBucket
             meanPct        == IF ctx.typicalPullback = None THEN None
                               ELSE ctx.typicalPullback[1].meanPct
         IN  IF pullbackPct = None \/ ~IsFinite(pullbackPct[1])
             THEN [isSweetSpot |-> FALSE,
                   reason |-> "Pullback depth unavailable for current session."]
             ELSE IF \/ bucketsAlign(pullbackBucket, dominantBucket)
                     \/ /\ meanPct # None
                        /\ IsFinite(meanPct[1])
                        /\ Abs(pullbackPct[1][2] - meanPct[1][2]) <= MEAN_TOLERANCE
                  THEN [isSweetSpot |-> TRUE,
                        reason |-> "Pullback aligns with historical behaviour and price is near zone."]
                  ELSE [isSweetSpot |-> FALSE,
                        reason |-> "Current pullback does not align with historical sweet spot."]

\* the finest depth of a call is 25 thousandths times this
MaxSweetStep == 48

SweetDepths == { 25 * k : k \in 0..MaxSweetStep }

\* the current depth with the bucket the scan reports for it, or without one
SweetPullbacks ==
    {None}
    \cup { Some([pct |-> Some(Fin(d)), bucket |-> b]) :
              d \in SweetDepths, b \in {Null} }
    \cup { Some([pct |-> Some(Fin(d)), bucket |-> classifyPullbackBucket(<<d, 1000>>)]) :
              d \in SweetDepths }
    \cup { Some([pct |-> x, bucket |-> Null]) : x \in {None, Some(NaN), Some(Inf(1))} }

SweetTypicals ==
    {None}
    \cup { Some([meanPct |-> m, dominantBucket |-> b]) :
              m \in {None, Some(NaN), Some(Fin(300)), Some(Fin(500)), Some(Fin(1000))},
              b \in {Null, "0-0.382", "0.382-0.5", "0.5-0.618", "0.618-0.786",
                     "0.786-1.0", "1.0+"} }

SweetZones == {None} \cup { Some([status |-> st]) : st \in {"AT_ZONE", "NEAR", "FAR"} }

InitSweet ==
    /\ fArgs \in [pullbackDepth : SweetPullbacks, typicalPullback : SweetTypicals,
                  nearestZone : SweetZones]
    /\ fOut = <<>>
    /\ fPc = "idle"
    /\ ModelsIdle /\ PullbackIdle /\ PairsIdle /\ RetryIdle /\ ScanIdle

EvaluateSweetSpot ==
    /\ fPc = "idle"
    /\ fOut' = evaluateSweetSpot(fArgs)
    /\ fPc' = "done"
    /\ UNCHANGED <<fArgs, modelVars, pullbackVars, pairVars, retryVars, scanVars>>

SpecSweet == InitSweet /\ [][EvaluateSweetSpot]_vars

\* the depth of the call is a finite number
SweetDepthFinite ==
    /\ fArgs.pullbackDepth # None
    /\ fArgs.pullbackDepth[1].pct # None
    /\ IsFinite(fArgs.pullbackDepth[1].pct[1])

\* the depth of the call lies within 0.05 of a finite historical mean
SweetMeanClose ==
    /\ fArgs.typicalPullback # None
    /\ fArgs.typicalPullback[1].meanPct # None
    /\ IsFinite(fArgs.typicalPullback[1].meanPct[1])
    /\ Abs(fArgs.pullbackDepth[1].pct[1][2] - fArgs.typicalPullback[1].meanPct[1][2]) <= 50

\* the bucket of the call aligns with the dominant bucket of the history
SweetBucketsAlign ==
    /\ fArgs.typicalPullback # None
    /\ bucketsAlign(fArgs.pullbackDepth[1].bucket, fArgs.typicalPullback[1].dominantBucket)

\* C17: isSweetSpot is true exactly when the nearest zone exists with status
\* AT_ZONE or NEAR, the current depth is a finite number, and the current
\* bucket aligns with the dominant bucket or the depth lies within 0.05 of the
\* historical mean
C17_SweetSpotGates ==
    fPc = "done" =>
        (fOut.isSweetSpot <=>
            /\ fArgs.nearestZone # None
            /\ fArgs.nearestZone[1].status \in {"AT_ZONE", "NEAR"}
            /\ SweetDepthFinite
            /\ (SweetBucketsAlign \/ SweetMeanClose))

\* a depth of 0.525 in a bucket apart from the dominant one, within 0.05 of
\* a mean of 0.5, next to a zone: a sweet spot
C17_Witness ==
    /\ fPc = "done"
    /\ fOut.isSweetSpot
    /\ fArgs.nearestZone = Some([status |-> "NEAR"])
    /\ fArgs.pullbackDepth = Some([pct |-> Some(Fin(525)), bucket |-> "0.5-0.618"])
    /\ fArgs.typicalPullback = Some([meanPct |-> Some(Fin(500)), dominantBucket |-> "0-0.382"])


\* ---------------------------------------------------------------------------
\* Model D: the pending limit order at a sweet spot
\* ---------------------------------------------------------------------------

\* a trade of model D carries the fields of the other models' trades and a placement
PendingLimit(t) ==
    [model |-> "D", direction |-> t.direction, entry |-> t.entry, stop |-> t.stop,
     tp1 |-> t.tp1, risk_price |-> t.risk_price, reward_price |-> t.reward_price,
     rr |-> t.rr, status |-> t.status, stopType |-> t.stopType,
     placement |-> "PENDING_LIMIT"]

\* the zone mid lies in the band of the bucket projected onto the prior day's
\* range: between bucket-min and bucket-max of the range below the prior high
\* (Bull) or above the prior low (Bear); fractions are in thousandths
InModelDBand(trend, mid, prev, range) ==
    LET retrace == IF trend = "Bull" THEN prev.high - mid ELSE mid - prev.low
        size    == prev.high - prev.low
    IN  /\ range.min * size <= 1000 * retrace
        /\ 1000 * retrace <= range.max * size

\* the zones of the list with the highest score, in list order
HighestScored(zones) ==
    SelectSeq(zones, LAMBDA z : \A k \in 1..Len(zones) : zones[k].score <= z.score)

\* the entry is the mid of the highest-scored zone in the band, taken only on
\* the correct side of the current price; the Swing-stop and PD-stop variants
\* are built as models A and B build theirs
generateModelDTrades(trend, zones, liquidity, bars, symbol, options) ==
    LET currentPrice == bars[Len(bars)].close
        prev     == bars[Len(bars) - 1]
        riskCap  == risk_cap[symbol]
        slBuffer == sl_buffer[symbol]
        minRR    == EffectiveMinRr(options)
        range    == IF options.typicalPullback = None THEN None
                    ELSE parseBucketRange(options.typicalPullback[1].dominantBucket)
        inBand   == SelectSeq(zones, LAMBDA z : InModelDBand(trend, z.zone_mid, prev, range[1]))
        best     == HighestScored(inBand)
    IN  IF ~options.isSweetSpot THEN <<>>
        ELSE IF trend \notin {"Bull", "Bear"} THEN <<>>
        ELSE IF SpreadBlocked(bars, options) THEN <<>>
        ELSE IF range = None THEN <<>>
        ELSE IF best = <<>> THEN <<>>
        ELSE IF trend = "Bull"
        THEN IF best[1].zone_mid >= currentPrice THEN <<>>
             ELSE LET swing == ModelALong(best[1], liquidity, riskCap, slBuffer, minRR)
                      pd    == ModelBLong(best[1], liquidity, prev.low, riskCap, slBuffer, minRR)
                  IN  [k \in 1..Len(swing \o pd) |-> PendingLimit((swing \o pd)[k])]
        ELSE IF best[1].zone_mid <= currentPrice THEN <<>>
             ELSE LET swing == ModelAShort(best[1], liquidity, riskCap, slBuffer, minRR)
                      pd    == ModelBShort(best[1], liquidity, prev.high, riskCap, slBuffer, minRR)
                  IN  [k \in 1..Len(swing \o pd) |-> PendingLimit((swing \o pd)[k])]

\* a faulty variant of ModelDOptions: the signal is not passed on
ModelDOptions_AlwaysSweet(tradeOptions, pullbackDepth, typicalPullback, nearestZone, sweetSpotSignal) ==
    [minRr |-> tradeOptions.minRr, spreadCap |-> tradeOptions.spreadCap,
     pullbackDepth |-> IF pullbackDepth # None /\ pullbackDepth[1].pct # None
                       THEN pullbackDepth ELSE None,
     typicalPullback |-> typicalPullback,
     nearestZone |-> nearestZone,
     isSweetSpot |-> TRUE]

\* the options scanSymbol hands to model D: the trade options, the pullback
\* depth when it is not null, the history, the nearest zone and the signal
ModelDOptions(tradeOptions, pullbackDepth, typicalPullback, nearestZone, sweetSpotSignal) ==
    [minRr |-> tradeOptions.minRr, spreadCap |-> tradeOptions.spreadCap,
     pullbackDepth |-> IF pullbackDepth # None /\ pullbackDepth[1].pct # None
                       THEN pullbackDepth ELSE None,
     typicalPullback |-> typicalPullback,
     nearestZone |-> nearestZone,
     isSweetSpot |-> sweetSpotSignal.isSweetSpot]

\* the part of scanSymbol from the sweet-spot signal to the trades of model D
SweetSpotTrades(trend, bars, symbol, tradeOptions, pullbackDepth, typicalPullback, nearestZone) ==
    LET zones     == findStructuralZones(bars, symbol, Len(bars))
        liquidity == createLiquidityMap(bars)
        signal    == evaluateSweetSpot([pullbackDepth |-> pullbackDepth,
                                        typicalPullback |-> typicalPullback,
                                        nearestZone |-> nearestZone])
    IN  [sweetSpotSignal |-> signal,
         modelDTrades |-> generateModelDTrades(trend, zones, liquidity, bars, symbol,
                              ModelDOptions(tradeOptions, pullbackDepth, typicalPullback,
                                            nearestZone, signal))]

FlatBars == { b \in GridBars : b.high = b.low }

InitModelD ==
    /\ \E b1 \in FlatBars, b2 \in GridBars, b3 \in GridBars :
          fArgs \in [bars : {<<b1, b2, b3>>},
                     trend : Trends,
                     symbol : {"XAUUSD"},
                     tradeOptions : {[minRr |-> None, spreadCap |-> None],
                                     [minRr |-> Some(<<0, 1>>), spreadCap |-> None]},
                     pullbackDepth : {Some([pct |-> None, bucket |-> Null]),
                                      Some([pct |-> Some(Fin(500)), bucket |-> "0.5-0.618"])},
                     typicalPullback : {None}
                        \cup {Some([meanPct |-> Some(Fin(500)), dominantBucket |-> b]) :
                                 b \in {"0-0.382", "0.5-0.618", "0.786-1.0"}},
                     nearestZone : {Some([status |-> "NEAR"]), Some([status |-> "FAR"])}]
    /\ fOut = <<>>
    /\ fPc = "idle"
    /\ ModelsIdle /\ PullbackIdle /\ PairsIdle /\ RetryIdle /\ ScanIdle

RunModelD ==
    /\ fPc = "idle"
    /\ fOut' = SweetSpotTrades(fArgs.trend, fArgs.bars, fArgs.symbol, fArgs.tradeOptions,
                               fArgs.pullbackDepth, fArgs.typicalPullback, fArgs.nearestZone)
    /\ fPc' = "done"
    /\ UNCHANGED <<fArgs, modelVars, pullbackVars, pairVars, retryVars, scanVars>>

SpecModelD == InitModelD /\ [][RunModelD]_vars

\* C18: model D emits no trade when isSweetSpot is false; each trade it emits
\* is placed as PENDING_LIMIT with its entry strictly below the current price
\* in a Bull trend and strictly above it in a Bear trend
C18_ModelDPendingLimit ==
    fPc = "done" =>
        LET currentPrice == fArgs.bars[Len(fArgs.bars)].close
            trades       == fOut.modelDTrades
        IN  /\ ~fOut.sweetSpotSignal.isSweetSpot => trades = <<>>
            /\ \A k \in 1..Len(trades) :
                  /\ trades[k].placement = "PENDING_LIMIT"
                  /\ fArgs.trend = "Bull" => trades[k].entry < currentPrice
                  /\ fArgs.trend = "Bear" => trades[k].entry > currentPrice
                  /\ fArgs.trend \in {"Bull", "Bear"}

\* a Bull sweet spot with the Swing-stop and the PD-stop variant below the price
C18_Witness ==
    /\ fPc = "done"
    /\ fArgs.trend = "Bull"
    /\ fOut.sweetSpotSignal.isSweetSpot
    /\ Len(fOut.modelDTrades) = 2
    /\ fOut.modelDTrades[1].entry < fArgs.bars[Len(fArgs.bars)].close
    /\ fOut.modelDTrades[1].stopType = "Swing"
    /\ fOut.modelDTrades[2].stopType = "PD"


\* ---------------------------------------------------------------------------
\* The depth buckets, called on their own
\* ---------------------------------------------------------------------------

\* the deepest depth of a call, in thousandths
MaxBucketDepth == 1200

\* the depths the callers pass are finite: thousandths from just below 0, and
\* thirds up to 4/3
BucketDepths ==
    { <<n, 1000>> : n \in (0 - 10)..MaxBucketDepth } \cup { <<n, 3>> : n \in 0..4 }

\* how far above the depth the second depth of a call lies, in units of the
\* depth's denominator
BucketSteps == {1, 2, 400}

InitBuckets ==
    /\ fArgs \in [depth : BucketDepths, step : BucketSteps]
    /\ fOut = <<>>
    /\ fPc = "idle"
    /\ ModelsIdle /\ PullbackIdle /\ PairsIdle /\ RetryIdle /\ ScanIdle

\* the bucket of the depth and the bucket of a deeper depth
ClassifyBuckets ==
    /\ fPc = "idle"
    /\ fOut' = [bucket |-> classifyPullbackBucket(fArgs.depth),
                deeper |-> classifyPullbackBucket(<<fArgs.depth[1] + fArgs.step,
                                                    fArgs.depth[2]>>)]
    /\ fPc' = "done"
    /\ UNCHANGED <<fArgs, modelVars, pullbackVars, pairVars, retryVars, scanVars>>

SpecBuckets == InitBuckets /\ [][ClassifyBuckets]_vars

\* the place of a bucket in the order of the six buckets
BucketIndex(bucket) ==
    CASE bucket = "0-0.382" -> 1
      [] bucket = "0.382-0.5" -> 2
      [] bucket = "0.5-0.618" -> 3
      [] bucket = "0.618-0.786" -> 4
      [] bucket = "0.786-1.0" -> 5
      [] bucket = "1.0+" -> 6

\* C19: a depth below 0.382 is in '0-0.382', one in [0.382, 0.5) in
\* '0.382-0.5', one in [0.5, 0.618) in '0.5-0.618', one in [0.618, 0.786) in
\* '0.618-0.786', one in [0.786, 1.0) in '0.786-1.0' and one of 1.0 or more in
\* '1.0+'; a deeper depth never has an earlier bucket
C19_HalfOpenBuckets ==
    fPc = "done" =>
        LET n == 1000 * fArgs.depth[1]
            d == fArgs.depth[2]
        IN  /\ (fOut.bucket = "0-0.382") <=> (n < 382 * d)
            /\ (fOut.bucket = "0.382-0.5") <=> (382 * d <= n /\ n < 500 * d)
            /\ (fOut.bucket = "0.5-0.618") <=> (500 * d <= n /\ n < 618 * d)
            /\ (fOut.bucket = "0.618-0.786") <=> (618 * d <= n /\ n < 786 * d)
            /\ (fOut.bucket = "0.786-1.0") <=> (786 * d <= n /\ n < 1000 * d)
            /\ (fOut.bucket = "1.0+") <=> (1000 * d <= n)
            /\ BucketIndex(fOut.bucket) <= BucketIndex(fOut.deeper)

\* a depth of exactly 1.0 is in '1.0+', the bucket of the deeper depths
C19_Witness ==
    /\ fPc = "done"
    /\ fArgs.depth = <<1000, 1000>>
    /\ fOut.bucket = "1.0+"
    /\ fOut.deeper = "1.0+"


\* ---------------------------------------------------------------------------
\* The state of the sweet-spot band
\* ---------------------------------------------------------------------------

\* a faulty variant of classifySweetspotState: the current price is looked at
\* before today's range
classifySweetspotState_PriceFirst(sweetspotLow, sweetspotHigh, highToday, lowToday, currentPrice) ==
    IF \/ ~IsFinite(sweetspotLow) \/ ~IsFinite(sweetspotHigh)
       \/ ~IsFinite(highToday) \/ ~IsFinite(lowToday) \/ ~IsFinite(currentPrice)
    THEN Null
    ELSE IF sweetspotLow[2] >= sweetspotHigh[2] THEN Null
    ELSE IF currentPrice[2] >= sweetspotLow[2] /\ currentPrice[2] <= sweetspotHigh[2]
    THEN "currently_in"
    ELSE IF ~(highToday[2] >= sweetspotLow[2] /\ lowToday[2] <= sweetspotHigh[2])
    THEN "not_touched"
    ELSE "touched_and_rejected"

\* the five arguments are JavaScript numbers; null is Null
classifySweetspotState(sweetspotLow, sweetspotHigh, highToday, lowToday, currentPrice) ==
    IF \/ ~IsFinite(sweetspotLow) \/ ~IsFinite(sweetspotHigh)
       \/ ~IsFinite(highToday) \/ ~IsFinite(lowToday) \/ ~IsFinite(currentPrice)
    THEN Null
    ELSE IF sweetspotLow[2] >= sweetspotHigh[2] THEN Null
    ELSE LET inSweetspotNow ==
                 currentPrice[2] >= sweetspotLow[2] /\ currentPrice[2] <= sweetspotHigh[2]
             rangeIntersectsSweetspot ==
                 highToday[2] >= sweetspotLow[2] /\ lowToday[2] <= sweetspotHigh[2]
         IN  IF ~rangeIntersectsSweetspot THEN "not_touched"
             ELSE IF inSweetspotNow THEN "currently_in"
             ELSE "touched_and_rejected"

\* the highest price level of a call
MaxBandLevel == 5

BandNums == { Fin(k) : k \in 1..MaxBandLevel } \cup { NaN, Inf(1) }

\* today's low does not lie above today's high
InitBand ==
    /\ fArgs \in [sweetspotLow : BandNums, sweetspotHigh : BandNums, highToday : BandNums,
                  lowToday : BandNums, currentPrice : BandNums]
    /\ (IsFinite(fArgs.lowToday) /\ IsFinite(fArgs.highToday))
          => fArgs.lowToday[2] <= fArgs.highToday[2]
    /\ fOut = <<>>
    /\ fPc = "idle"
    /\ ModelsIdle /\ PullbackIdle /\ PairsIdle /\ RetryIdle /\ ScanIdle

ClassifySweetspotState ==
    /\ fPc = "idle"
    /\ fOut' = [sweetspotState |->
                   classifySweetspotState(fArgs.sweetspotLow, fArgs.sweetspotHigh,
                                          fArgs.highToday, fArgs.lowToday, fArgs.currentPrice)]
    /\ fPc' = "done"
    /\ UNCHANGED <<fArgs, modelVars, pullbackVars, pairVars, retryVars, scanVars>>

SpecBand == InitBand /\ [][ClassifySweetspotState]_vars

\* every argument of the call is finite and the band has low < high
BandInputsValid ==
    /\ \A x \in {fArgs.sweetspotLow, fArgs.sweetspotHigh, fArgs.highToday,
                 fArgs.lowToday, fArgs.currentPrice} : IsFinite(x)
    /\ fArgs.sweetspotLow[2] < fArgs.sweetspotHigh[2]

\* today's range and the band have a price in common
RangeMeetsBand ==
    Max2(fArgs.lowToday[2], fArgs.sweetspotLow[2])
        <= Min2(fArgs.highToday[2], fArgs.sweetspotHigh[2])

\* the current price lies in the band, bounds included
PriceInBand ==
    /\ fArgs.sweetspotLow[2] <= fArgs.currentPrice[2]
    /\ fArgs.currentPrice[2] <= fArgs.sweetspotHigh[2]

\* C20: null when the band has low >= high or an argument is not finite;
\* otherwise not_touched when today's range does not meet the band, wherever
\* the price is, currently_in when it meets the band and the price is inside
\* it, touched_and_rejected when it meets the band and the price is outside
C20_SweetspotState ==
    fPc = "done" =>
        IF ~BandInputsValid THEN fOut.sweetspotState = Null
        ELSE IF ~RangeMeetsBand THEN fOut.sweetspotState = "not_touched"
        ELSE IF PriceInBand THEN fOut.sweetspotState = "currently_in"
        ELSE fOut.sweetspotState = "touched_and_rejected"

\* today's range stayed below the band while the current price is inside it
C20_Witness ==
    /\ fPc = "done"
    /\ BandInputsValid
    /\ fArgs.highToday[2] < fArgs.sweetspotLow[2]
    /\ PriceInBand
    /\ fOut.sweetspotState = "not_touched"


\* ---------------------------------------------------------------------------
\* The trend classifier: ATR, latest trend day and alignment
\* ---------------------------------------------------------------------------

\* the bars of the ATR window: the last atrWindow bars, or all when there are fewer
AtrWindowBars == Min2(fArgs.atrWindow, Len(fArgs.bars))

\* the true range of bar i of the series against the close of the bar before it
TrueRangeAt(i) ==
    LET high      == fArgs.bars[i].high
        low       == fArgs.bars[i].low
        prevClose == fArgs.bars[i - 1].close
    IN  SetMax({high - low, Abs(high - prevClose), Abs(low - prevClose)})

\* C21: the ATR is never negative; it is 0 with fewer than 2 bars; otherwise
\* it is the sum of the true ranges of the last (window - 1) bar pairs divided
\* by (window - 1)
C21_AverageTrueRange ==
    fPc = "done" =>
        LET n   == Len(fArgs.bars)
            w   == AtrWindowBars
            sum == SumSeq([k \in 1..(w - 1) |-> TrueRangeAt(n - w + 1 + k)])
        IN  /\ fOut.atr20[1] >= 0
            /\ fOut.atr20[2] > 0
            /\ w < 2 => fOut.atr20[1] = 0
            /\ w >= 2 => fOut.atr20[1] * (w - 1) = sum * fOut.atr20[2]

\* an ATR over three pairs of a longer series whose last bar gapped away from
\* the close before it
C21_Witness ==
    /\ fPc = "done"
    /\ Len(fArgs.bars) > 4
    /\ fArgs.atrWindow = 4
    /\ fOut.atr20[2] = 3
    /\ TrueRangeAt(Len(fArgs.bars)) > fArgs.bars[Len(fArgs.bars)].high
                                        - fArgs.bars[Len(fArgs.bars)].low
    /\ fOut.atr20[1] > 0


\* ---------------------------------------------------------------------------
\* The depth of a recorded pair
\* ---------------------------------------------------------------------------

\* overlap + overshoot of a recorded pair: the shared part of the two ranges
\* plus the larger excursion of the current bar beyond the prior bar
OverlapPlusOvershoot(r) ==
    LET overlap   == Max2(0, Min2(r.prevHigh, r.currHigh) - Max2(r.prevLow, r.currLow))
        overshoot == SetMax({r.prevLow - r.currLow, r.currHigh - r.prevHigh, 0})
    IN  overlap + overshoot

\* C22: the depth of every recorded pair equals (overlap + overshoot) /
\* priorRange
C22_DepthIsOverlapPlusOvershoot ==
    cpPc # "first" =>
        \A k \in 1..Len(cpRecords) :
            LET r == cpRecords[k]
            IN  r.depthIntoPrevPct[1] * (r.prevHigh - r.prevLow)
                    = OverlapPlusOvershoot(r) * r.depthIntoPrevPct[2]


\* ---------------------------------------------------------------------------
\* Model C against the trend classifier
\* ---------------------------------------------------------------------------

\* the trades of model C among the generated trades
ModelCTradesOf(trades) == SelectSeq(trades, LAMBDA t : t.model \in {"C1", "C2"})

\* the trend day the statement gives the middle bar against the oldest bar:
\* the classifier's break-and-close rule, and the two closes compared when
\* both extremes were broken
StatedModelCTrendDay(referenceBar, trendBar) ==
    LET brokeHigh == trendBar.high > referenceBar.high
        brokeLow  == trendBar.low < referenceBar.low
    IN  IF brokeHigh /\ brokeLow
        THEN (IF trendBar.close >= referenceBar.close THEN "Bull" ELSE "Bear")
        ELSE classifyTrendDayForPair(referenceBar, trendBar)

\* C23: model C trades Long only when the middle bar is a Bull trend day
\* against the oldest bar and Short only when it is a Bear trend day, by the
\* classifier's break-and-close rule when one extreme was broken and by the
\* closes when both were; a middle bar that broke one extreme and closed back
\* inside yields no trade
C23_ModelCUsesClassifierRule ==
    mPc = "done" =>
        LET trendDay == StatedModelCTrendDay(mBars[Len(mBars) - 2], mBars[Len(mBars) - 1])
            trades   == ModelCTradesOf(mTrades)
        IN  \A k \in 1..Len(trades) :
                /\ trades[k].direction = "Long" => trendDay = "Bull"
                /\ trades[k].direction = "Short" => trendDay = "Bear"


\* ---------------------------------------------------------------------------
\* The latest trend day
\* ---------------------------------------------------------------------------

\* the trend day of the final bar against the bar before it
FinalPairTrendDay ==
    classifyTrendDayForPair(fArgs.bars[Len(fArgs.bars) - 1], fArgs.bars[Len(fArgs.bars)])

\* C24: the trend day reported and fed into the alignment is the trend day of
\* the final bar against the bar before it, so a final bar that is no trend
\* day gives a Neutral trend day and a Neutral alignment
C24_LatestTrendDayIsFinalPair ==
    (fPc = "done" /\ Len(fArgs.bars) >= 2) =>
        /\ fOut.trendDay = FinalPairTrendDay
        /\ fOut.alignment = computeTrendAlignment(fOut.macroTrend, FinalPairTrendDay)
        /\ FinalPairTrendDay = "Neutral" => fOut.alignment = "Neutral"


\* ---------------------------------------------------------------------------
\* The direction and the entries of models A and B
\* ---------------------------------------------------------------------------

\* the trades of models A and B among the generated trades
ModelABTradesOf(trades) == SelectSeq(trades, LAMBDA t : t.model \in {"A", "B"})

\* C25: models A and B trade Long only in a Bull trend, Short only in a Bear
\* trend and not at all in a Neutral trend; every entry is the mid of one of
\* the zones, strictly below the last close for a Long and strictly above it
\* for a Short
C25_ModelABDirection ==
    mPc = "done" =>
        LET trades       == ModelABTradesOf(mTrades)
            zones        == findStructuralZones(mBars, mSymbol, Len(mBars))
            currentPrice == mBars[Len(mBars)].close
        IN  /\ mTrend = "Neutral" => trades = <<>>
            /\ \A k \in 1..Len(trades) :
                  /\ mTrend = "Bull" => trades[k].direction = "Long"
                  /\ mTrend = "Bear" => trades[k].direction = "Short"
                  /\ \E z \in 1..Len(zones) : zones[z].zone_mid = trades[k].entry
                  /\ trades[k].direction = "Long" => trades[k].entry < currentPrice
                  /\ trades[k].direction = "Short" => trades[k].entry > currentPrice

\* a Bear trend with a Short of model A and a Short of model B above the last close
C25_Witness ==
    /\ mPc = "done"
    /\ mTrend = "Bear"
    /\ \E a \in 1..Len(mTrades), b \in 1..Len(mTrades) :
          /\ mTrades[a].model = "A" /\ mTrades[a].direction = "Short"
          /\ mTrades[b].model = "B" /\ mTrades[b].direction = "Short"
          /\ mTrades[a].entry > mBars[Len(mBars)].close


\* ---------------------------------------------------------------------------
\* The entries of model C
\* ---------------------------------------------------------------------------

\* C26: every entry of model C is the high, the close or the low of the trend
\* bar and lies within the range of the current bar, and no two trades of one
\* result have the same direction, entry and stop type
C26_ModelCEntriesDistinct ==
    mPc = "done" =>
        LET trades     == ModelCTradesOf(mTrades)
            trendBar   == mBars[Len(mBars) - 1]
            currentBar == mBars[Len(mBars)]
        IN  /\ \A k \in 1..Len(trades) :
                  /\ trades[k].entry \in {trendBar.high, trendBar.close, trendBar.low}
                  /\ currentBar.low <= trades[k].entry
                  /\ trades[k].entry <= currentBar.high
            /\ \A j, k \in 1..Len(trades) :
                  (/\ trades[j].direction = trades[k].direction
                   /\ trades[j].entry = trades[k].entry
                   /\ trades[j].stopType = trades[k].stopType) => j = k

\* the trend bar closed on its high, the level was revisited, and the result
\* holds one Swing trade at it
C26_Witness ==
    /\ mPc = "done"
    /\ mBars[Len(mBars) - 1].close = mBars[Len(mBars) - 1].high
    /\ mBars[Len(mBars) - 1].low < mBars[Len(mBars) - 1].high
    /\ Cardinality({k \in 1..Len(mTrades) :
            /\ mTrades[k].model = "C1"
            /\ mTrades[k].entry = mBars[Len(mBars) - 1].high}) = 1


\* ---------------------------------------------------------------------------
\* The scenario statistics
\* ---------------------------------------------------------------------------

RECURSIVE Gcd(_, _)
Gcd(a, b) == IF b = 0 THEN a ELSE Gcd(b, a % b)

\* the fraction in lowest terms (numerator >= 0, denominator > 0)
Lowest(a) == LET g == Gcd(a[1], a[2]) IN <<a[1] \div g, a[2] \div g>>

RatAdd(a, b) == Lowest(<<a[1] * b[2] + b[1] * a[2], a[2] * b[2]>>)

RatEq(a, b) == a[1] * b[2] = b[1] * a[2]

RECURSIVE SumRat(_)
SumRat(s) == IF s = <<>> THEN <<0, 1>> ELSE RatAdd(Head(s), SumRat(Tail(s)))

RECURSIVE InsertDepth(_, _)
InsertDepth(x, s) ==
    IF s = <<>> THEN <<x>>
    ELSE IF RatLt(x, Head(s)) THEN <<x>> \o s
    ELSE <<Head(s)>> \o InsertDepth(x, Tail(s))

\* depths.sort((a, b) => a - b)
RECURSIVE SortDepths(_)
SortDepths(s) ==
    IF s = <<>> THEN <<>> ELSE InsertDepth(s[Len(s)], SortDepths(SubSeq(s, 1, Len(s) - 1)))

\* the key of the Map: macroTrendPrev|trendDayPrev|alignmentPrev
ScenarioKey(record) ==
    <<record.scenario.macroTrendPrev, record.scenario.trendDayPrev,
      record.scenario.alignmentPrev>>

\* the keys of the Map in insertion order
RECURSIVE GroupKeys(_, _)
GroupKeys(records, keys) ==
    IF records = <<>> THEN keys
    ELSE LET key == ScenarioKey(Head(records))
         IN  GroupKeys(Tail(records),
                       IF \E k \in 1..Len(keys) : keys[k] = key THEN keys
                       ELSE Append(keys, key))

\* a faulty variant of MedianDepth: an even count takes the upper middle value
MedianDepth_UpperMiddle(depths) ==
    LET sampleCount == Len(depths)
    IN  IF sampleCount % 2 = 1 THEN depths[(sampleCount - 1) \div 2 + 1]
        ELSE depths[sampleCount \div 2 + 1]

\* the median of the sorted depths; indices in the source count from 0
MedianDepth(depths) ==
    LET sampleCount == Len(depths)
    IN  IF sampleCount % 2 = 1 THEN depths[(sampleCount - 1) \div 2 + 1]
        ELSE LET mid1 == depths[sampleCount \div 2]
                 mid2 == depths[sampleCount \div 2 + 1]
                 sum  == RatAdd(mid1, mid2)
             IN  Lowest(<<sum[1], 2 * sum[2]>>)

PullbackBuckets ==
    {"0-0.382", "0.382-0.5", "0.5-0.618", "0.618-0.786", "0.786-1.0", "1.0+"}

\* the statistics of one group of records
ScenarioStats(groupRecords, lookbackDays) ==
    LET first  == groupRecords[1]
        depths == SortDepths([k \in 1..Len(groupRecords) |-> groupRecords[k].depthIntoPrevPct])
        sampleCount == Len(depths)
        sum    == SumRat(depths)
    IN  [key |-> first.scenario,
         lookbackDays |-> lookbackDays,
         sampleCount |-> sampleCount,
         meanDepthPct |-> Lowest(<<sum[1], sum[2] * sampleCount>>),
         medianDepthPct |-> MedianDepth(depths),
         minDepthPct |-> depths[1],
         maxDepthPct |-> depths[Len(depths)],
         bucketCounts |-> [b \in PullbackBuckets |->
             Cardinality({k \in 1..Len(groupRecords) : groupRecords[k].bucket = b})]]

buildPullbackScenarioStats(records, lookbackDays) ==
    LET keys == GroupKeys(records, <<>>)
    IN  [g \in 1..Len(keys) |->
            ScenarioStats(SelectSeq(records, LAMBDA r : ScenarioKey(r) = keys[g]),
                          lookbackDays)]

\* the most records of a call
MaxRecords == 4

\* scenarios with a recorded depth: the macro trend is Bull or Bear
StatScenarios ==
    { [macroTrendPrev |-> "Bull", trendDayPrev |-> "Bull", alignmentPrev |-> "AlignedLong"],
      [macroTrendPrev |-> "Bull", trendDayPrev |-> "Bear", alignmentPrev |-> "CounterShort"],
      [macroTrendPrev |-> "Bear", trendDayPrev |-> "Bear", alignmentPrev |-> "AlignedShort"] }

StatDepths == { <<3, 10>>, <<1, 2>>, <<5, 4>> }

\* a record as buildCandlePairPullbacks pushes it, reduced to the fields the
\* statistics read
StatRecords ==
    { [scenario |-> sc, depthIntoPrevPct |-> d, bucket |-> classifyPullbackBucket(d)] :
          sc \in StatScenarios, d \in StatDepths }

InitStats ==
    /\ \E n \in 0..MaxRecords :
          fArgs \in [records : [1..n -> StatRecords], lookbackDays : {lookback_days}]
    /\ fOut = <<>>
    /\ fPc = "idle"
    /\ ModelsIdle /\ PullbackIdle /\ PairsIdle /\ RetryIdle /\ ScanIdle

BuildStats ==
    /\ fPc = "idle"
    /\ fOut' = [stats |-> buildPullbackScenarioStats(fArgs.records, fArgs.lookbackDays)]
    /\ fPc' = "done"
    /\ UNCHANGED <<fArgs, modelVars, pullbackVars, pairVars, retryVars, scanVars>>

SpecStats == InitStats /\ [][BuildStats]_vars

\* the depths of the records of a scenario, by record index
DepthsOf(scenario) ==
    { k \in 1..Len(fArgs.records) : fArgs.records[k].scenario = scenario }

\* x is the depth of rank n (from 1) among the records of the indices in S
IsRank(x, n, S) ==
    /\ \E k \in S : RatEq(fArgs.records[k].depthIntoPrevPct, x)
    /\ Cardinality({k \in S : RatLt(fArgs.records[k].depthIntoPrevPct, x)}) < n
    /\ n <= Cardinality({k \in S : RatLe(fArgs.records[k].depthIntoPrevPct, x)})

\* the median of the records of the indices in S is m
IsMedian(m, S) ==
    LET n == Cardinality(S)
    IN  IF n % 2 = 1 THEN IsRank(m, (n + 1) \div 2, S)
        ELSE \E a \in S, b \in S :
                LET x == fArgs.records[a].depthIntoPrevPct
                    y == fArgs.records[b].depthIntoPrevPct
                IN  /\ IsRank(x, n \div 2, S)
                    /\ IsRank(y, n \div 2 + 1, S)
                    /\ RatEq(<<2 * m[1], m[2]>>, RatAdd(x, y))

\* C27: one entry for each scenario key among the records; the sample counts
\* add up to the number of records; the six bucket counts of an entry add up
\* to its sample count; min <= median <= max, the median being the middle
\* depth of an odd count and the average of the two middle depths of an even one
C27_ScenarioStatsPartition ==
    fPc = "done" =>
        LET stats == fOut.stats
        IN  /\ \A k \in 1..Len(fArgs.records) :
                  Cardinality({g \in 1..Len(stats) :
                                  stats[g].key = fArgs.records[k].scenario}) = 1
            /\ \A g \in 1..Len(stats) : DepthsOf(stats[g].key) # {}
            /\ SumSeq([g \in 1..Len(stats) |-> stats[g].sampleCount]) = Len(fArgs.records)
            /\ \A g \in 1..Len(stats) :
                  /\ stats[g].sampleCount = Cardinality(DepthsOf(stats[g].key))
                  /\ stats[g].bucketCounts["0-0.382"] + stats[g].bucketCounts["0.382-0.5"]
                     + stats[g].bucketCounts["0.5-0.618"] + stats[g].bucketCounts["0.618-0.786"]
                     + stats[g].bucketCounts["0.786-1.0"] + stats[g].bucketCounts["1.0+"]
                        = stats[g].sampleCount
                  /\ RatLe(stats[g].minDepthPct, stats[g].medianDepthPct)
                  /\ RatLe(stats[g].medianDepthPct, stats[g].maxDepthPct)
                  /\ IsMedian(stats[g].medianDepthPct, DepthsOf(stats[g].key))

\* two scenarios, one of them with an even count whose middle depths differ
C27_Witness ==
    /\ fPc = "done"
    /\ Len(fOut.stats) = 2
    /\ \E g \in 1..Len(fOut.stats) :
          /\ fOut.stats[g].sampleCount = 2
          /\ RatLt(fOut.stats[g].minDepthPct, fOut.stats[g].medianDepthPct)
          /\ RatLt(fOut.stats[g].medianDepthPct, fOut.stats[g].maxDepthPct)


\* ---------------------------------------------------------------------------
\* scanSymbol: the current scenario and its typical pullback
\* ---------------------------------------------------------------------------

\* Object.entries(bucketCounts) in insertion order
BucketEntries ==
    <<"0-0.382", "0.382-0.5", "0.5-0.618", "0.618-0.786", "0.786-1.0", "1.0+">>

\* the reduce over the entries: acc is [bucket, count], count None for -Infinity
RECURSIVE DominantFold(_, _, _)
DominantFold(bucketCounts, k, acc) ==
    IF k > Len(BucketEntries) THEN acc
    ELSE LET bucket == BucketEntries[k]
             count  == bucketCounts[bucket]
         IN  DominantFold(bucketCounts, k + 1,
                          IF acc.count = None \/ count > acc.count[1]
                          THEN [bucket |-> bucket, count |-> Some(count)]
                          ELSE acc)

\* the bucket of the reduce, or null for the empty string
DominantBucketOf(bucketCounts) ==
    LET acc == DominantFold(bucketCounts, 1, [bucket |-> "", count |-> None])
    IN  IF acc.bucket = "" THEN Null ELSE acc.bucket

\* pullbackScenarioStats.find(...) on the three fields of the key; undefined
\* is None
MatchingStats(pullbackScenarioStats, currentScenario) ==
    LET found == SelectSeq(pullbackScenarioStats,
                           LAMBDA stats : stats.key = currentScenario)
    IN  IF found = <<>> THEN None ELSE Some(found[1])

\* the snapshot and the typical pullback of the scan result (undefined is None)
PullbackSnapshot(pullbackRecords, pullbackScenarioStats, currentScenario, matchingStats, pullbackLookbackDays) ==
    [pullbackRecords |-> pullbackRecords,
     pullbackScenarioStats |-> pullbackScenarioStats,
     pullback |->
        [scenario |-> currentScenario,
         typicalMeanPct |-> IF matchingStats = None THEN None
                            ELSE Some(matchingStats[1].meanDepthPct),
         typicalMedianPct |-> IF matchingStats = None THEN None
                              ELSE Some(matchingStats[1].medianDepthPct),
         sampleCount |-> IF matchingStats = None THEN 0
                         ELSE matchingStats[1].sampleCount,
         lookbackDays |-> IF matchingStats = None THEN pullbackLookbackDays
                          ELSE matchingStats[1].lookbackDays],
     typicalPullback |->
        IF matchingStats = None THEN None
        ELSE Some([lookbackDays |-> matchingStats[1].lookbackDays,
                   samples |-> matchingStats[1].sampleCount,
                   meanPct |-> matchingStats[1].meanDepthPct,
                   medianPct |-> matchingStats[1].medianDepthPct,
                   dominantBucket |-> DominantBucketOf(matchingStats[1].bucketCounts)])]

\* the statistics of the records and the entry that matches the scenario
PullbackOfRecords(pullbackRecords, pullbackScenarioStats, currentScenario, pullbackLookbackDays) ==
    PullbackSnapshot(pullbackRecords, pullbackScenarioStats, currentScenario,
                     MatchingStats(pullbackScenarioStats, currentScenario),
                     pullbackLookbackDays)

\* the scenario as of the second-to-last bar
CurrentScenario(bars, w) ==
    LET prevIndex == Len(bars) - 2
        tPrev == classifyTrend(SubSeq(bars, 1, prevIndex + 1), w.lookbackDays,
                               w.atrWindow, w.trendLookback)
    IN  [macroTrendPrev |-> tPrev.macroTrend,
         trendDayPrev |-> tPrev.trendDay,
         alignmentPrev |-> tPrev.alignment]

ScanPullbackRecords(pullbackRecords, bars, w) ==
    PullbackOfRecords(pullbackRecords,
                      buildPullbackScenarioStats(pullbackRecords, w.pullbackLookbackDays),
                      CurrentScenario(bars, w), w.pullbackLookbackDays)

\* scanSymbol between the trend analysis and the zones: the pair records, their
\* statistics, the current scenario, the snapshot and the typical pullback
ScanPullbackStats(bars, w) ==
    ScanPullbackRecords(buildCandlePairPullbacks(bars, w.trendLookback,
                                                 w.pullbackLookbackDays),
                        bars, w)

\* the series of a sequence of moves, its second-to-last bar flattened to one
\* price when flatPrev
ScanBars(moves, flatPrev) ==
    LET bars == WalkBars(moves)
        k    == Len(bars) - 1
    IN  IF flatPrev
        THEN [bars EXCEPT ![k] = Bar(bars[k].close, bars[k].close, bars[k].close,
                                     bars[k].close, None)]
        ELSE bars

\* the series of a scan has MaxScanPairs + 1 bars
MaxScanPairs == 6

\* the windows are those of ScanWindows for parameters the series is long
\* enough for
InitScanStats ==
    /\ \E moves \in [1..MaxScanPairs -> Moves], flatPrev \in BOOLEAN,
          pullbackWindow \in {2, MaxScanPairs}, trendLookback \in {3, MaxScanPairs} :
          fArgs = [bars |-> ScanBars(moves, flatPrev),
                   w |-> ScanWindows([structureLookback |-> Some(MaxScanPairs),
                                      trendLookback |-> Some(trendLookback),
                                      atrWindow |-> Some(MaxScanPairs),
                                      pullbackWindow |-> Some(pullbackWindow)])]
    /\ fOut = <<>>
    /\ fPc = "idle"
    /\ ModelsIdle /\ PullbackIdle /\ PairsIdle /\ RetryIdle /\ ScanIdle

ScanStats ==
    /\ fPc = "idle"
    /\ Len(fArgs.bars) >= neededBars(fArgs.w)
    /\ fOut' = ScanPullbackStats(fArgs.bars, fArgs.w)
    /\ fPc' = "done"
    /\ UNCHANGED <<fArgs, modelVars, pullbackVars, pairVars, retryVars, scanVars>>

SpecScanStats == InitScanStats /\ [][ScanStats]_vars

\* the records of the pair (second-to-last bar, last bar), by index
CurrentPairRecords ==
    { k \in 1..Len(fOut.pullbackRecords) :
         /\ fOut.pullbackRecords[k].prevIndex = Len(fArgs.bars) - 2
         /\ fOut.pullbackRecords[k].currIndex = Len(fArgs.bars) - 1 }

\* the records of the current scenario, by index
CurrentScenarioRecords ==
    { k \in 1..Len(fOut.pullbackRecords) :
         fOut.pullbackRecords[k].scenario = fOut.pullback.scenario }

\* the macro trend as of the second-to-last bar, computed on its own
MacroTrendPrev ==
    computeMacroTrend(SubSeq(fArgs.bars, 1, Len(fArgs.bars) - 1),
                      fArgs.w.trendLookback)

\* C28: the pair (second-to-last bar, last bar) has a record whenever the macro
\* trend as of the second-to-last bar is Bull or Bear and that bar has a range;
\* the record's scenario is the current scenario, so the matching statistics
\* exist and their count, mean, median range and buckets take the record in;
\* with a Neutral macro trend there are no matching statistics
C28_CurrentPairInTypical ==
    fPc = "done" =>
        LET prevBar == fArgs.bars[Len(fArgs.bars) - 1]
        IN  /\ \A k \in CurrentPairRecords :
                  fOut.pullbackRecords[k].scenario = fOut.pullback.scenario
            /\ (MacroTrendPrev \in {"Bull", "Bear"} /\ prevBar.high - prevBar.low > 0) =>
                  /\ Cardinality(CurrentPairRecords) = 1
                  /\ fOut.typicalPullback # None
                  /\ fOut.pullback.typicalMeanPct # None
                  /\ fOut.pullback.typicalMedianPct # None
                  /\ fOut.pullback.sampleCount >= 1
                  /\ fOut.pullback.sampleCount = Cardinality(CurrentScenarioRecords)
                  /\ fOut.typicalPullback[1].samples = fOut.pullback.sampleCount
                  /\ \A k \in CurrentPairRecords :
                        LET own   == fOut.pullbackRecords[k]
                            stats == CHOOSE st \in Range(fOut.pullbackScenarioStats) :
                                         st.key = fOut.pullback.scenario
                        IN  /\ k \in CurrentScenarioRecords
                            /\ stats.bucketCounts[own.bucket] >= 1
                            /\ stats.bucketCounts[fOut.typicalPullback[1].dominantBucket]
                                  >= stats.bucketCounts[own.bucket]
                            /\ RatLe(stats.minDepthPct, own.depthIntoPrevPct)
                            /\ RatLe(own.depthIntoPrevPct, stats.maxDepthPct)
                            /\ RatEq(<<stats.meanDepthPct[1],
                                       stats.meanDepthPct[2]>>,
                                     <<SumRat([j \in 1..Len(fOut.pullbackRecords) |->
                                          IF j \in CurrentScenarioRecords
                                          THEN fOut.pullbackRecords[j].depthIntoPrevPct
                                          ELSE <<0, 1>>])[1],
                                       SumRat([j \in 1..Len(fOut.pullbackRecords) |->
                                          IF j \in CurrentScenarioRecords
                                          THEN fOut.pullbackRecords[j].depthIntoPrevPct
                                          ELSE <<0, 1>>])[2] * stats.sampleCount>>)
            /\ MacroTrendPrev = "Neutral" =>
                  /\ fOut.typicalPullback = None
                  /\ fOut.pullback.typicalMeanPct = None
                  /\ fOut.pullback.typicalMedianPct = None
                  /\ fOut.pullback.sampleCount = 0

\* the current pair's record is the only one of its scenario among several
\* records: the typical values are the current session's own depth
C28_Witness ==
    /\ fPc = "done"
    /\ Len(fOut.pullbackRecords) >= 3
    /\ Cardinality(CurrentPairRecords) = 1
    /\ CurrentScenarioRecords = CurrentPairRecords
    /\ fOut.pullback.sampleCount = 1

\* a Neutral macro trend as of the second-to-last bar with records of other
\* scenarios in the window
C28_WitnessNeutral ==
    /\ fPc = "done"
    /\ MacroTrendPrev = "Neutral"
    /\ Len(fOut.pullbackRecords) >= 1


\* ---------------------------------------------------------------------------
\* Alignment of the depth buckets
\* ---------------------------------------------------------------------------

\* the call has a current bucket and a dominant bucket
SweetBothBuckets ==
    /\ fArgs.pullbackDepth # None
    /\ fArgs.pullbackDepth[1].bucket # Null
    /\ fArgs.typicalPullback # None
    /\ fArgs.typicalPullback[1].dominantBucket # Null

\* the current bucket is the dominant bucket or next to it in the order of depth
SweetNeighbourBuckets ==
    Abs(BucketIndex(fArgs.pullbackDepth[1].bucket)
        - BucketIndex(fArgs.typicalPullback[1].dominantBucket)) <= 1

\* C29: on the six buckets bucketsAlign is reflexive and symmetric and holds
\* exactly for the same bucket and for neighbours, '1.0+' being a neighbour of
\* '0.786-1.0'; so near a zone and with a finite depth a current bucket that is
\* the dominant one or its neighbour is a sweet spot whatever the mean
C29_NeighbourBucketsAlign ==
    (fPc = "done" /\ SweetBothBuckets) =>
        LET currentBucket  == fArgs.pullbackDepth[1].bucket
            dominantBucket == fArgs.typicalPullback[1].dominantBucket
        IN  /\ bucketsAlign(currentBucket, currentBucket)
            /\ bucketsAlign(dominantBucket, dominantBucket)
            /\ bucketsAlign(currentBucket, dominantBucket)
                  = bucketsAlign(dominantBucket, currentBucket)
            /\ bucketsAlign(currentBucket, dominantBucket) = SweetNeighbourBuckets
            /\ (NearZone(fArgs.nearestZone) /\ SweetDepthFinite /\ SweetNeighbourBuckets)
                  => fOut.isSweetSpot

\* a depth past 1.0 against a history that mostly stops short of it, the mean
\* far away: a sweet spot by the neighbouring buckets alone
C29_Witness ==
    /\ fPc = "done"
    /\ SweetBothBuckets
    /\ NearZone(fArgs.nearestZone)
    /\ SweetDepthFinite
    /\ fArgs.pullbackDepth[1].bucket = "1.0+"
    /\ fArgs.typicalPullback[1].dominantBucket = "0.786-1.0"
    /\ ~SweetMeanClose
    /\ fOut.isSweetSpot


\* ---------------------------------------------------------------------------
\* Macro trend, trend day and alignment together
\* ---------------------------------------------------------------------------

\* C30: a Bull or Bear macro trend never comes with a Neutral trend day; the
\* alignment is Neutral exactly when the macro trend is; a Bull macro trend
\* comes with AlignedLong or CounterShort, a Bear one with AlignedShort or
\* CounterLong
C30_AlignmentFollowsMacroTrend ==
    fPc = "done" =>
        /\ fOut.macroTrend # "Neutral" => fOut.trendDay # "Neutral"
        /\ fOut.alignment = "Neutral" <=> fOut.macroTrend = "Neutral"
        /\ fOut.macroTrend = "Bull" => fOut.alignment \in {"AlignedLong", "CounterShort"}
        /\ fOut.macroTrend = "Bear" => fOut.alignment \in {"AlignedShort", "CounterLong"}

\* a Bull macro trend whose last pair is no trend day and whose latest trend
\* day is a Bear one
C30_Witness ==
    /\ fPc = "done"
    /\ Len(fArgs.bars) > 2
    /\ fOut.macroTrend = "Bull"
    /\ classifyTrendDayForPair(fArgs.bars[Len(fArgs.bars) - 1],
                               fArgs.bars[Len(fArgs.bars)]) = "Neutral"
    /\ fOut.trendDay = "Bear"
    /\ fOut.alignment = "CounterShort"

====
